\* Two banks in three blocks of up to three sizes: a block that one bank has
\* left may be the other's next.
CONSTANTS
  Banks = {b1, b2}
  Blocks = {k1, k2, k3}
  Rooms = {1, 2, 3}
  MaxCount = 1
SPECIFICATION Spec
INVARIANT BanksAreValues
