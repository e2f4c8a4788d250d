--------------------------- MODULE MCReplication ----------------------------
(* Replication for TLC: positions and states of an object, two of each where *)
(* they matter, and the symmetry of the sessions.                            *)
EXTENDS Replication, TLC

CONSTANTS Idle, Jump

MCInfos   == [x : {0}, y : {0, 1}, state : {Idle, Jump}]
OneInfo   == {[x |-> 0, y |-> 0, state |-> Idle]}
TwoInfos  == {[x |-> 0, y |-> 0, state |-> Idle], [x |-> 0, y |-> 1, state |-> Jump]}

\* Spawned where the client's mistake about y does not show, and where it does.
Level == [x |-> 0, y |-> 0, state |-> Idle]
Above == [x |-> 0, y |-> 1, state |-> Idle]

\* The sessions are alike, so one pair stands for every pair.
Reporter == CHOOSE s \in Sessions : TRUE
Watcher  == CHOOSE s \in Sessions \ {Reporter} : TRUE

PairSpec == RSpec /\ ReportFairness(Reporter, Watcher)

\* Replication.tla, ReportShown: what one client reports of its player, another
\* comes to show.
FirstReportShown == ReportShown(Reporter, Watcher)

SessionSymmetry == Permutations(Sessions)
=============================================================================
