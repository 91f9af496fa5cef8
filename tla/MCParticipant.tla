--------------------------- MODULE MCParticipant ----------------------------
EXTENDS Participant, TLC

CONSTANTS m1, m2

MoverSymmetry == Permutations({m1, m2})

\* What MCParticipant.cfg follows together: three of the events each may happen
\* once and the moves twice, a second move only where no user asks for anything.
Eventful ==
  /\ others + moves + resets + faults + requests <= 3
  /\ moves = 2 => requests = 0

Farms == {"Hof", "Nord"}
NoneAlike == {}
Resembling == {<<"Hof", "Nord">>, <<"Nord", "Hof">>}
OneHof == <<"Hof">>
HofNord == <<"Hof", "Nord">>
Farm == {"Hof"}
OneNord == <<"Nord">>
Nothing == <<>>

=============================================================================
