SPECIFICATION Spec
CONSTANT MaxSpell = 130
INVARIANT
  SpellsBounded
PROPERTY
  ClosesAtCloseHour
