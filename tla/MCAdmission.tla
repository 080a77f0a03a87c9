---------------------------- MODULE MCAdmission ----------------------------
EXTENDS Admission, TLC

CONSTANTS a, b, c

\* An hour is three ticks, a day five.
MCWindow == [hourly |-> 3, daily |-> 5]
MCLimit == [hourly |-> 1, daily |-> 2]
MCRoomyLimit == [hourly |-> 2, daily |-> 3]
Symmetry == Permutations(Requests)
=============================================================================
