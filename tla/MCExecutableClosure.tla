--------------------------- MODULE MCExecutableClosure ---------------------------
(* Instances of ExecutableClosure for TLC. *)
EXTENDS ExecutableClosure, TLC

\* Unit 1 is a library with an initializer that has a body and one, 91, that is only
\* declared; unit 2 the main unit; unit 3 a library that is called, with two initializers.
\* Functions of unit n are n1, n2, ...; 90 is a runtime primitive, 92 an unknown name.
MCInitializers == <<<<11, 91>>, <<22>>, <<32, 33>>>>
MCFunction     == {11, 21, 22, 31, 32, 33, 90, 91, 92}
MCKind         == [f \in MCFunction |-> CASE f = 90 -> "outside" [] f = 91 -> "declared"
                                          [] f = 92 -> "missing" [] OTHER -> "body"]
MCUnitOf       == [f \in MCFunction |-> IF f >= 90 THEN 1 ELSE f \div 10]
MCMayCall      == {<<21, 31>>, <<22, 31>>, <<33, 91>>, <<31, 92>>, <<31, 90>>}
MCMayRefer     == {<<31, 1>>}
MCMayPrecede   == {<<32, 33>>, <<33, 32>>}
MCMayImport    == {<<2, 1>>, <<2, 3>>, <<3, 2>>, <<1, 3>>, <<3, 1>>}
MCMayShare     == {{1, 2}}
=================================================================================
