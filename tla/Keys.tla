------------------------------- MODULE Keys --------------------------------
(***************************************************************************)
(* The keys of an account and the check of an operation's signatures       *)
(* against them (currency/keys.go, currency/signs.go).                     *)
(*                                                                         *)
(* An account's keys are public keys with weights and a threshold; a fact  *)
(* carries the set of the public keys that signed it.                      *)
(***************************************************************************)
EXTENDS Amounts

CONSTANT
    Pubkeys \* public keys, of accounts and of suffrage nodes

\* The most keys an account may have.
MaxKeyInKeys == 10

\* The values of the Keys type: the weight of a key is over zero, so 0 stands
\* for a public key that is not among the keys.
AnyKeys == [threshold : Nat, weight : [Pubkeys -> Nat]]

Members(keys) == {k \in Pubkeys : keys.weight[k] > 0}

\* The sum of the weights of some of the keys.
Weight(keys, S) == Total([k \in S |-> keys.weight[k]])

\* Keys.IsValid, and Key.IsValid of each key.
KeysIsValid(keys) ==
    /\ keys.threshold \in 1..100
    /\ Cardinality(Members(keys)) \in 1..MaxKeyInKeys
    /\ \A k \in Members(keys) : keys.weight[k] =< 100
    /\ Weight(keys, Members(keys)) >= keys.threshold

\* checkThreshold: every signer is one of the keys, and the weights of the
\* signers reach the threshold.
CheckThreshold(signs, keys) ==
    /\ signs \subseteq Members(keys)
    /\ Weight(keys, signs) >= keys.threshold

\* checkFactSignsByPubs: enough of the signers are nodes of the suffrage;
\* signers that are not are passed over.
CheckFactSignsByPubs(signs, pubs, threshold) ==
    Cardinality(signs \cap pubs) >= threshold
=============================================================================
