---------------------------- MODULE MCLifecycle ----------------------------
(***************************************************************************)
(* One policy of five units for two recipients, one of whom gets the       *)
(* rounding; attestations for every value a funding transaction can have;  *)
(* an instruction of the script's or one of three of another client's.     *)
(***************************************************************************)
EXTENDS Lifecycle

CONSTANTS pol, owner, bob, carol, d1, d2, d3, t1, h1, i1, i2, admin, ad, tee

MCDraft ==
  [NoPolicy EXCEPT !.owner = owner, !.expiry = 2, !.targetAmount = 5,
                   !.recipients = <<bob, carol>>, !.sharesBps = <<1, 3>>,
                   !.status = "DRAFT"]

Attestation(d, value) ==
  [digest |-> d, transactionHash |-> t1, status |-> 1, value |-> value,
   verified |-> TRUE]

MCProofs == {Attestation(d1, 5), Attestation(d2, 4), Attestation(d3, 1)}

MCMessage ==
  [schemaVersion |-> SCHEMA_VERSION, policyId |-> pol, externalProofDigest |-> d1,
   privateInputHash |-> h1, recipients |-> <<bob, carol>>, sharesBps |-> <<1, 3>>,
   total |-> 5, nonce |-> 1, expiry |-> 2]

\* Another split, a nonce that Core does not wait for, and a message that the
\* handler throws on.
MCOtherMessages ==
  {[MCMessage EXCEPT !.sharesBps = <<3, 1>>], [MCMessage EXCEPT !.nonce = 2],
   [MCMessage EXCEPT !.schemaVersion = "AURELITH_SETTLEMENT_V2"]}

MCResults ==
  {[policyId |-> pol, externalProofDigest |-> d, privateInputHash |-> h1,
    computationReference |-> i, recipients |-> <<bob, carol>>,
    amounts |-> a, total |-> 5, nonce |-> n, expiry |-> 2] :
   d \in {d1, d2, d3}, i \in {i1, i2}, a \in {<<1, 4>>, <<3, 2>>}, n \in {1, 2}}
=============================================================================
