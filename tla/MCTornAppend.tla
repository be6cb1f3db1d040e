------------------------------ MODULE MCTornAppend ------------------------------
(***************************************************************************)
(* Behaviours of five engines in which a crash interrupts an append that   *)
(* overwrites two entries.  Course says who campaigns, who hears whom and  *)
(* who stops, in which order; between two of these events every engine     *)
(* finishes its iteration of the loop.                                     *)
(***************************************************************************)
EXTENDS NodeProperties

CONSTANTS n1, n2, n3, n4, n5 \* the engines

VARIABLE done                \* events of Course so far

Event(does, n, m) == [does |-> does, at |-> n, of |-> m]

Campaigns(n)  == << Event("campaign", n, NoNode) >>
Hears(n, m)   == << Event("hear", n, m) >>
Publishes(n)  == << Event("publish", n, NoNode), Event("update", n, NoNode),
                    Event("update", n, NoNode) >>
Crashes(n)    == << Event("crash", n, NoNode), Event("restart", n, NoNode) >>

Course ==
  \* Term 2: n1 proposes a block, which n2 alone receives.
  Campaigns(n1) \o Hears(n2, n1) \o Hears(n3, n1) \o Hears(n1, n3) \o Publishes(n1) \o Hears(n2, n1)
  \* Term 3: n2 is elected; n1 has all that n2 has.
  \o Campaigns(n2) \o Hears(n1, n2) \o Hears(n3, n2) \o Hears(n5, n2) \o Hears(n2, n3) \o Hears(n1, n2)
  \* Term 4: n5, which has nothing, is elected by n3 and n4 and proposes another
  \* block; n2 crashes when it has overwritten two of its three entries.
  \o Campaigns(n5) \o Hears(n1, n5) \o Hears(n3, n5) \o Hears(n4, n5) \o Hears(n5, n4)
  \o Publishes(n5) \o Hears(n2, n5) \o Crashes(n2)
  \* Term 5: n1 is elected by n2 and n3; it takes the last entry of n2 for its own.
  \o Campaigns(n1) \o Hears(n2, n1) \o Hears(n3, n1) \o Hears(n1, n3) \o Hears(n2, n1) \o Hears(n3, n1)
  \o Hears(n1, n2) \o Hears(n2, n1)

Busy(n) == phase[n] \in Running \ {"recv"}

Happens(v) ==
  \/ v.does = "campaign" /\ Tick(v.at) /\ raft'[v.at].role = "Candidate"
  \/ v.does = "hear" /\ StepMessage(v.at, v.of)
  \/ v.does = "publish" /\ Tick(v.at) /\ tree' # tree
  \/ v.does = "update" /\ leader_state' # leader_state
                       /\ \E x \in BlockId : OnBlockNew(v.at, x) \/ OnBlockValid(v.at, x)
  \/ v.does = "crash" /\ CrashInReady(v.at) /\ IsStrictPrefix(raft[v.at].log, disk'[v.at].log)
  \/ v.does = "restart" /\ Restart(v.at)

Scheduled ==
  \/ /\ done < Len(Course)
     /\ Course[done + 1].does = "crash" \/ \A n \in Node : ~Busy(n)
     /\ Happens(Course[done + 1])
     /\ done' = done + 1
  \/ /\ \E n \in Node : Busy(n) /\ Ready(n)
     /\ UNCHANGED done

CourseSpec == Init /\ done = 0 /\ [][Next /\ Scheduled]_<<vars, done>>
=============================================================================
