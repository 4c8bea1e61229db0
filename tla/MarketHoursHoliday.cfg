SPECIFICATION Spec
CONSTANT MaxSpell = 130
INVARIANT
  HolidayClosed
