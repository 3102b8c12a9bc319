-------------------------------- MODULE Send --------------------------------
(***************************************************************************)
(* Sending through the API (digest/handler_send.go, newSendHandler in      *)
(* cmds/process_digest_api.go): the handler checks what was posted, puts   *)
(* it into a seal of the node and gives the seal to all suffrage nodes at  *)
(* once, each by a goroutine of its own with five seconds.  The goroutines *)
(* leave their errors in a channel that is read when all are done.         *)
(*                                                                         *)
(* The send command (cmds/send.go) does the same with a seal it has loaded *)
(* and the urls it is given, and so does the operation builder with an     *)
(* operation it has built: both have checked what they send themselves.    *)
(*                                                                         *)
(* External: the other nodes and the network, which may refuse, lose or    *)
(* delay a seal; a seal may still arrive when its time is over.            *)
(***************************************************************************)
EXTENDS Naturals, Sequences, FiniteSets

CONSTANT Remotes  \* the suffrage nodes; the urls of the send command, each once

\* What can be posted: whether its operations are valid, and its seal.  A
\* list of operations or a single one comes without a seal: its seal is the
\* one the node makes of them, which it signs and then checks itself.
Kinds == {"operation seal", "seal", "operation", "operations", "other"}
SealStates == {"valid", "bad signature", "invalid"}
Bodies == [kind : Kinds, ops : BOOLEAN, seal : SealStates]

NoBody == [kind |-> "other", ops |-> FALSE, seal |-> "invalid"]

VARIABLES
    body,    \* what was posted
    pc,      \* "idle", "received", "sending" or "answered"
    call,    \* each goroutine: "none", "calling", "returned" or "done"
    err,     \* what its SendSeal returned: failed or not
    errchan,
    transit, \* the nodes that the seal is still on its way to
    inbox,   \* the nodes that have the seal
    answer   \* "none", "ok" or "error"

sending == <<body, pc, call, err, errchan, transit, inbox, answer>>

SendInit ==
    /\ body = NoBody
    /\ pc = "idle"
    /\ call = [n \in Remotes |-> "none"]
    /\ err = [n \in Remotes |-> FALSE]
    /\ errchan = <<>>
    /\ transit = {}
    /\ inbox = {}
    /\ answer = "none"

\* Mutant: the operations of a posted seal are taken as they are.
SendableBySeal(b) ==
    \/ b.kind \in {"operation seal", "seal"} /\ b.seal # "invalid"
    \/ b.kind \in {"operation", "operations"} /\ b.ops /\ b.seal # "invalid"

\* sendItem, sendOperations and the check of the seal the node has signed: a
\* seal of operations needs no signature of the sender, for the node signs it
\* itself.
Sendable(b) ==
    \/ b.kind = "operation seal" /\ b.ops /\ b.seal # "invalid"
    \/ b.kind = "seal" /\ b.seal = "valid"
    \/ b.kind \in {"operation", "operations"} /\ b.ops /\ b.seal # "invalid"

\* A client posts b.
Post(b) ==
    /\ pc = "idle"
    /\ body' = b
    /\ pc' = "received"
    /\ UNCHANGED <<call, err, errchan, transit, inbox, answer>>

\* A goroutine for every node.
Call == pc' = "sending" /\ call' = [n \in Remotes |-> "calling"] /\ UNCHANGED answer

Refuse == pc' = "answered" /\ answer' = "error" /\ UNCHANGED call

\* Who has checked b himself sends it: the builder when asked to, and the
\* send command, which first may fail to load a channel.
Give(b) ==
    /\ pc = "idle"
    /\ body' = b
    /\ Call \/ Refuse
    /\ UNCHANGED <<err, errchan, transit, inbox>>

HandleSend ==
    /\ pc = "received"
    /\ IF Sendable(body) THEN Call ELSE Refuse
    /\ UNCHANGED <<body, err, errchan, transit, inbox>>

\* SendSeal returns: the node has the seal, or has refused it, or the time
\* is over and the seal lost, delivered or on its way.
SendSeal(n) ==
    /\ call[n] = "calling"
    /\ call' = [call EXCEPT ![n] = "returned"]
    /\ \/ inbox' = inbox \cup {n} /\ UNCHANGED <<err, transit>>
       \/ /\ err' = [err EXCEPT ![n] = TRUE]
          /\ \/ UNCHANGED <<inbox, transit>>
             \/ inbox' = inbox \cup {n} /\ UNCHANGED transit
             \/ transit' = transit \cup {n} /\ UNCHANGED inbox
    /\ UNCHANGED <<body, pc, errchan, answer>>

Arrive(n) ==
    /\ n \in transit
    /\ transit' = transit \ {n}
    /\ inbox' = inbox \cup {n}
    /\ UNCHANGED <<body, pc, call, err, errchan, answer>>

\* Mutant: one place less.
ErrChanTight == Cardinality(Remotes) - 1

\* The capacity of errchan.
ErrChanCap == Cardinality(Remotes)

Put(n) ==
    /\ call[n] = "returned"
    /\ Len(errchan) < ErrChanCap
    /\ errchan' = Append(errchan, err[n])
    /\ call' = [call EXCEPT ![n] = "done"]
    /\ UNCHANGED <<body, pc, err, transit, inbox, answer>>

\* Mutant: the first result decides.
FirstFailed == errchan # <<>> /\ Head(errchan)

\* for err := range errchan: any error is the answer.
AnyFailed == \E i \in DOMAIN errchan : errchan[i]

\* wg.Wait, and the answer.
Answer ==
    /\ pc = "sending"
    /\ \A n \in Remotes : call[n] = "done"
    /\ pc' = "answered"
    /\ answer' = IF AnyFailed THEN "error" ELSE "ok"
    /\ UNCHANGED <<body, call, err, errchan, transit, inbox>>

\* What goes on once a client has posted.
SendStep ==
    \/ HandleSend
    \/ Answer
    \/ \E n \in Remotes : SendSeal(n) \/ Put(n) \/ Arrive(n)

SendNext ==
    \/ \E b \in Bodies : Post(b) \/ (Sendable(b) /\ Give(b))
    \/ SendStep

\* The handler and its goroutines run, and SendSeal has its time limit.
SendFairness ==
    /\ WF_sending(HandleSend)
    /\ WF_sending(Answer)
    /\ \A n \in Remotes : WF_sending(SendSeal(n)) /\ WF_sending(Put(n))

SendSpec == SendInit /\ [][SendNext]_sending /\ SendFairness

-----------------------------------------------------------------------------
\* Who is answered ok may be sure that every suffrage node has the seal,
\* in whatever order the nodes answered, failed or timed out.
OKIsEverywhere == answer = "ok" => inbox = Remotes

\* No node gets an operation that is not valid, or has a seal on its way to
\* it, whatever it was posted in.
OnlyValidIsSent ==
    inbox \cup transit # {} => body.kind # "other" /\ (body.kind = "seal" \/ body.ops)

\* A request is answered, whatever becomes of the nodes.
Answered == pc # "idle" ~> pc = "answered"
=============================================================================
