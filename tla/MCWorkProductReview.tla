------------------------ MODULE MCWorkProductReview ------------------------
(* Instances of WorkProductReview for TLC. *)
EXTENDS WorkProductReview, TLC

CONSTANTS ann, bob, cyd, p1, c1, c2, k1

\* bob reviews; ann and cyd edit and approve what the other wrote.
Roles == "reviewer" :> {bob} @@ "approver" :> {ann, cyd}

Slots == Permutations(Call) \cup Permutations({ann, cyd})
=============================================================================
