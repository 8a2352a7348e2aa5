--------------------------- MODULE MCAurelithCore ---------------------------
(***************************************************************************)
(* Small instances of AurelithCore: two policies that may belong to        *)
(* different accounts and whose owner may also be paid; proofs that are    *)
(* usable, too small, unverified, or two attestations of one source        *)
(* transaction; and results that differ from the policies' evidence in     *)
(* every field that is compared.                                           *)
(***************************************************************************)
EXTENDS AurelithEscrow, PolicyPages, TLC

CONSTANTS p1, p2, owner, bob, d1, d2, d3, t1, h1, i1, i2, admin, ad, tee

MCParams ==
  { [targetAmount |-> 2, expiry |-> 2, recipients |-> <<bob, owner>>,
     sharesBps |-> <<2, 2>>],
    [targetAmount |-> 1, expiry |-> 1, recipients |-> <<bob>>,
     sharesBps |-> <<4>>],
    [targetAmount |-> 2, expiry |-> 2, recipients |-> <<bob, bob>>,
     sharesBps |-> <<2, 2>>] }

\* One policy whose payout can fail and one whose payout cannot.
LiveParams ==
  { [targetAmount |-> 1, expiry |-> 1, recipients |-> <<bob>>,
     sharesBps |-> <<4>>],
    [targetAmount |-> 1, expiry |-> 1, recipients |-> <<owner>>,
     sharesBps |-> <<4>>] }

LiveResults ==
  { [policyId |-> p, externalProofDigest |-> d1, privateInputHash |-> h1,
     computationReference |-> i1, recipients |-> <<a>>, amounts |-> <<1>>,
     total |-> 1, nonce |-> 1, expiry |-> 1] : p \in {p1, p2}, a \in {owner, bob} }

MCProofs ==
  { [digest |-> d1, transactionHash |-> t1, status |-> 1, value |-> 2,
     verified |-> TRUE],
    [digest |-> d2, transactionHash |-> t1, status |-> 1, value |-> 2,
     verified |-> TRUE],
    [digest |-> d3, transactionHash |-> t1, status |-> 1, value |-> 0,
     verified |-> TRUE],
    [digest |-> d3, transactionHash |-> t1, status |-> 1, value |-> 2,
     verified |-> FALSE] }

OneProof == {p \in MCProofs : p.digest = d1}

Payouts ==
  { [recipients |-> <<bob, owner>>, amounts |-> <<1, 1>>, total |-> 2],
    [recipients |-> <<bob, owner>>, amounts |-> <<2, 0>>, total |-> 2],
    [recipients |-> <<bob, owner>>, amounts |-> <<1, 2>>, total |-> 2],
    [recipients |-> <<bob>>, amounts |-> <<1>>, total |-> 1] }

MCResults ==
  { [policyId |-> p, externalProofDigest |-> d, privateInputHash |-> h1,
     computationReference |-> i, recipients |-> pay.recipients,
     amounts |-> pay.amounts, total |-> pay.total, nonce |-> 1, expiry |-> e] :
    p \in {p1, p2}, d \in {d1, d2}, i \in {i1, i2}, pay \in Payouts, e \in 1 .. 3 }

StaleResults == {r \in MCResults : r.policyId = p1}

MCSymmetry == Permutations({p1, p2}) \cup Permutations({i1, i2})
                \cup Permutations({d1, d2})
=============================================================================
