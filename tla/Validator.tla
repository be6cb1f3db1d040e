----------------------------- MODULE Validator ------------------------------
(***************************************************************************)
(* The Sawtooth validators (external to this repository), as the engine    *)
(* sees them through the Service trait and the updates it receives.        *)
(*                                                                         *)
(* tree[b] is block b of the network: its parent, the value it gives the   *)
(* setting sawtooth.consensus.raft.peers, and whether the validators find  *)
(* it valid.  validator[n] is the validator of node n: its chain head, the *)
(* parent of the block it builds, the commits the engine has asked for and *)
(* the updates on their way to the engine, which may reach it in any       *)
(* order.                                                                  *)
(***************************************************************************)
EXTENDS Identifiers, Sequences

CONSTANTS InitPeers,     \* the peers of the genesis block
          Memberships,   \* the values the peers setting may take
          Verdicts       \* whether blocks may be valid (TRUE), invalid (FALSE)

ASSUME PeersAssumption == /\ InitPeers \subseteq Node
                          /\ InitPeers # {}
                          /\ Memberships \subseteq SUBSET Node
ASSUME VerdictsAssumption == Verdicts \subseteq BOOLEAN

VARIABLES validator, tree

BlockRecord == [parent : Chain, peers : SUBSET Node, valid : BOOLEAN]

\* The updates of the consensus API, but for PeerMessage and those about peers.
Update == [type : {"BlockNew", "BlockValid", "BlockInvalid", "BlockCommit"},
           block : BlockId]

ValidatorState == [head : Chain, building : Chain \cup {NoBlock},
                   requests : Seq(BlockId), inbox : SUBSET Update]

New(b)     == [type |-> "BlockNew", block |-> b]
Valid(b)   == [type |-> "BlockValid", block |-> b]
Invalid(b) == [type |-> "BlockInvalid", block |-> b]
Commit(b)  == [type |-> "BlockCommit", block |-> b]

Verdict(b, valid) == IF valid THEN Valid(b) ELSE Invalid(b)

NewValidator ==
  [head |-> Genesis, building |-> NoBlock, requests |-> << >>, inbox |-> {}]

\* get_settings at block b, the genesis block included.
Settings(b) == IF b \in DOMAIN tree THEN tree[b].peers ELSE InitPeers

Parent(b) == tree[b].parent

Receive(v, u)      == [v EXCEPT !.inbox = @ \ {u}]
InitializeBlock(v) == [v EXCEPT !.building = v.head]
CancelBlock(v)     == [v EXCEPT !.building = NoBlock]
CheckBlocks(v, b)  == [v EXCEPT !.inbox = @ \cup {Verdict(b, tree[b].valid)}]
CommitBlock(v, b)  == [v EXCEPT !.requests = Append(@, b)]

\* An administrator changes at most one peer per block.
NextPeers(p) ==
  {P \in Memberships \cup {Settings(p)} :
     Cardinality((P \ Settings(p)) \cup (Settings(p) \ P)) <= 1}

\* finalize_block at n: the new block reaches every validator that runs, and is
\* found valid or not.
FinalizedAt(n, b, valid, running) ==
  [m \in Node |->
     [validator[m] EXCEPT
        !.building = IF m = n THEN NoBlock ELSE @,
        !.inbox    = IF m \in running THEN @ \cup {New(b), Verdict(b, valid)} ELSE @]]

\* The validator carries out the commit request it was given first: the block
\* becomes its head, and an engine that runs is told.
Committed(v, b, running) ==
  [v EXCEPT !.head = b, !.requests = Tail(@),
            !.inbox = IF running THEN @ \cup {Commit(b)} ELSE @]

\* The chain that ends in block b: what every set has that holds b and the parents
\* of its blocks.
Ancestors(b) ==
  {c \in Chain : \A S \in SUBSET ({Genesis} \cup DOMAIN tree) :
     b \in S /\ (\A x \in S \ {Genesis} : Parent(x) \in S) => c \in S}

\* What the validator keeps when its engine stops: commit requests it has
\* already taken may or may not survive.
Disconnected(v, kept) ==
  [head |-> v.head, building |-> NoBlock, requests |-> kept, inbox |-> {}]

\* An engine that registers again learns of the blocks outside the chain.
Reconnected(v) ==
  [v EXCEPT !.inbox = UNION {{New(b), Verdict(b, tree[b].valid)} :
                               b \in DOMAIN tree \ Ancestors(v.head)}]
=============================================================================
