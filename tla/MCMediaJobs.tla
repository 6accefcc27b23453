---------------------------- MODULE MCMediaJobs ----------------------------
(***************************************************************************)
(* Small instances of MediaJobs for TLC.  Amounts are zero: what a         *)
(* settlement charges is the subject of Billing.  A behaviour follows one  *)
(* video from its creation on, or sweeps that several accepted videos share.*)
(***************************************************************************)
EXTENDS MediaJobs

CONSTANTS t1, k1, c1

OneTenant == [k \in Tokens |-> t1]
NoLimit   == [k \in Tokens |-> 0]
OneKey    == [r \in Requests |-> k1]
OwnModel  == [c \in Channels |-> c]
NoPrices  == [m \in Models |-> [u \in Usages |-> 0]]
AllMeters   == [m \in Models |-> [u \in Usages |-> u]]
NoEstimate  == [r \in Requests |-> 0]
EstimateOne == [r \in Requests |-> 1]

VARIABLE slice

\* The providers have accepted every video; the bookkeeping of one of them ended
\* too early, the others await reconciliation.
Swept(stuck) ==
    /\ request = [r \in Requests |->
          [status |-> IF r = stuck THEN "settled" ELSE "settlement_pending", channel |-> c1, model |-> c1,
           usage |-> IF r = stuck THEN 1 ELSE NoUsage, settled |-> 0]]
    /\ reservation = [r \in Requests |->
          [status |-> IF r = stuck THEN "settled" ELSE "pending", reserved |-> 0, settled |-> 0,
           released |-> 0, estimate |-> 1]]
    /\ job = [r \in Requests |-> [status |-> "running", channel |-> c1]]
    /\ updated \in SetToSeqs(Requests)
    /\ upstream = [r \in Requests |-> [status |-> "running", usage |-> NoUsage]]
    /\ worker = [w \in Workers |-> Idle]
    /\ balance = [t \in Tenants |-> 0] /\ spent = [k \in Tokens |-> 0]
    /\ revenue = 0 /\ topup = 0 /\ creditTx = <<>> /\ chargeTx = [r \in Requests |-> 0]
    /\ activeTokens = Tokens /\ lapsed = {} /\ batch = {}

MCInit ==
    \/ slice = "one" /\ MediaInit
    \/ slice = "many" /\ \E r \in Requests : Swept(r)

\* One video is made, and polled, swept and settled by everyone.
OneVideo == \A r \in Requests \ {1} : request'[r] = NoRequest /\ \A w \in Workers : worker'[w].row # r

\* No client asks; the providers end a video with a usage, or fail without one.
ManyVideos ==
    /\ \A w \in Handlers : worker'[w].pc = "idle"
    /\ \A r \in Requests : upstream'[r].status = "failed" <=> upstream'[r] = [status |-> "failed", usage |-> NoUsage]
    /\ lapsed' = {} /\ activeTokens' = Tokens

MCNext ==
    /\ UNCHANGED slice
    /\ MediaNext
    /\ IF slice = "one" THEN OneVideo ELSE ManyVideos

FairStep == [][MCNext]_<<mediaVars, slice>> /\ MediaFairness

OneSpec == slice = "one" /\ MediaInit /\ FairStep
MCSpec  == MCInit /\ FairStep
=============================================================================
