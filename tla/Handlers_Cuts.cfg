CONSTANTS
  u1 = u1
  u2 = u2
  r1 = r1
  Updaters = {u1, u2}
  Readers = {r1}
  NoOne = NoOne
  BatchLen = 2
SPECIFICATION Spec
INVARIANTS
  ShownIsACut
  EventsMatchChanges
PROPERTIES
  BatchesAreAtomic
