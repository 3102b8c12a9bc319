------------------------------ MODULE Clients -------------------------------
(***************************************************************************)
(* From a client's first keystroke to the nodes: a client makes a document *)
(* with the operation builder of the API (Builder) or with the commands    *)
(* (ClientSeals), and posts it to the API, has the builder send it or      *)
(* gives it to the send command (Send).                                    *)
(*                                                                         *)
(* What the parts leave to one another is whether operations are valid:    *)
(* the commands print what they have not checked, the builder sends        *)
(* without the handler's check, and the send command has no handler        *)
(* before it.                                                              *)
(***************************************************************************)
EXTENDS Builder, ClientSeals, Send

ASSUME BoundsAssumption ==
    /\ MaxSigns \in Nat \ {0}
    /\ MaxCommands \in Nat
    /\ IsFiniteSet(Remotes)

VARIABLE agreed \* whether what was posted is valid, and its signatures are its signers'

vars == <<builder, file, sending, agreed>>

Init ==
    /\ BuilderInit
    /\ FileInit
    /\ SendInit
    /\ agreed = FALSE

-----------------------------------------------------------------------------
\* Each signer under an operation of s has had its fact signed.
SignersAgreedIn(s) ==
    \A i \in DOMAIN s.ops : \A k \in s.ops[i].signs : <<Fact(s.ops[i]), k>> \in consent

SealIsAgreed(s) == SignersAgreedIn(s) /\ \A i \in DOMAIN s.ops : ItemsAreValid(s.ops[i])

\* A client who works on one document at a time.
Build ==
    /\ pc = "idle"
    /\ seal = NoSeal
    /\ BuilderStep
    /\ UNCHANGED <<file, sending, agreed>>

GiveCommand ==
    /\ pc = "idle"
    /\ doc = Nothing
    /\ FileStep
    /\ UNCHANGED <<builder, sending, agreed>>

\* The client is done with its document.
Leave(isAgreed) ==
    /\ agreed' = isAgreed
    /\ LeaveBuilder
    /\ seal' = NoSeal
    /\ LeaveFile

\* An operation is posted, built or not.
PostOperation ==
    /\ doc.kind = "operation"
    /\ Post([kind |-> "operation", ops |-> OperationIsValid(doc), seal |-> "valid"])
    /\ Leave(DocIsAgreed(doc))

\* handleOperationBuildSign with send: what BuildOperation returned goes to
\* sendSeal, past the checks of sendItem.
SendBuilt ==
    /\ built # Nothing
    /\ Give([kind |-> "operation", ops |-> TRUE, seal |-> "valid"])
    /\ Leave(DocIsAgreed(built))

\* A seal of the commands is posted.
PostSeal ==
    /\ seal # NoSeal
    /\ Post([kind |-> "operation seal", ops |-> Readable(seal), seal |-> "valid"])
    /\ Leave(SealIsAgreed(seal))

\* The send command, which has loaded the seal as the other commands do.
SendFile ==
    /\ Readable(seal)
    /\ Give([kind |-> "operation seal", ops |-> TRUE, seal |-> "valid"])
    /\ Leave(SealIsAgreed(seal))

\* Anything else is posted.
PostOther(b) ==
    /\ doc = Nothing /\ seal = NoSeal
    /\ Post(b)
    /\ Leave(b.ops \/ b.kind = "seal")

Proceed == SendStep /\ UNCHANGED <<builder, file, agreed>>

Next ==
    \/ Build \/ GiveCommand
    \/ PostOperation \/ SendBuilt \/ PostSeal \/ SendFile
    \/ \E b \in Bodies : PostOther(b)
    \/ Proceed

Spec == Init /\ [][Next]_vars /\ SendFairness

-----------------------------------------------------------------------------
\* Whatever reaches a node, or is on its way to one, is valid and has no
\* signature but its signers' own, of a fact that says the same in all that
\* is signed: of this very fact, unless it is a currency registration from
\* the builder, whose genesis account and policy nobody signs (DocIsAgreed).
\* Whichever of the builder, the handler and the commands was to check it, no
\* way past all of them is left, though the commands print what they have not
\* checked and the client may change a document at any time.
SentIsAgreed == inbox \cup transit # {} => agreed
=============================================================================
