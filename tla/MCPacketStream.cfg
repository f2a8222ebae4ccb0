SPECIFICATION Spec
CONSTANT Tiles <- RegularTiles
CHECK_DEADLOCK FALSE
INVARIANTS StreamComplete StreamOrdered InStep WindowServed
