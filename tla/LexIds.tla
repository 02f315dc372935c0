--------------------------------- MODULE LexIds ---------------------------------
(***************************************************************************)
(* The ids of the oplog entries: strings of eight bytes, the first id all  *)
(* zero and each next one made by KyrinLexicographicallyHelper::add_one.   *)
(* The databases keep their entries in the order of the bytes of the key.  *)
(***************************************************************************)
EXTENDS Naturals

CONSTANTS Base,         \* values of a byte, 256
          Width,        \* bytes of an id, 8
          CharSigned    \* char is signed, as it is where KyrinBox is built

ASSUME IdAssumption == Base \in Nat \ {0, 1} /\ Width \in Nat \ {0} /\ CharSigned \in BOOLEAN

Positions == 1..Width
Id == [Positions -> 0..(Base - 1)]

GetZero == [i \in Positions |-> 0]

\* add_one compares the char, converted to 32 bits, with 0xFFFFFFFF: a byte of all
\* ones is equal to it only if its sign is extended.
Overflows(b) == CharSigned /\ b = Base - 1

\* The byte at which add_one stops: the last one that does not overflow.
Stops(s, p) == ~Overflows(s[p]) /\ \A j \in Positions : j > p => Overflows(s[j])

AddOneAt(s, p) ==
    [i \in Positions |-> IF i < p THEN s[i] ELSE IF i = p THEN (s[i] + 1) % Base ELSE 0]
WithoutCarry(s) == [s EXCEPT ![Width] = (@ + 1) % Base]
AddOne(s) == IF \E p \in Positions : Stops(s, p)
             THEN AddOneAt(s, CHOOSE p \in Positions : Stops(s, p))
             ELSE GetZero

\* The order of the keys in a database.
Before(s, t) ==
    \E i \in Positions : s[i] < t[i] /\ \A j \in Positions : j < i => s[j] = t[j]

\* The largest id, which has no next one.
LastId == [i \in Positions |-> Base - 1]
=============================================================================
