------------------------------- MODULE Shamir -------------------------------
(***************************************************************************)
(* Splitting a secret into shares and recovering it (roadmap.rs and the    *)
(* shamir commands of shph-cli): the field arithmetic as the code computes *)
(* it, for a secret of one byte, and the files share-001.json ... that a   *)
(* split writes one after the other.  A split into the same directory      *)
(* replaces the files of an earlier one, and may stop half way.            *)
(***************************************************************************)
EXTENDS Integers, Sequences, FiniteSets, Functions

CONSTANTS SHAMIR_PRIME,
          Secrets,        \* bytes that are split
          FieldElements,  \* what sample_field_element may return
          Policies,       \* configurations [threshold, shares]
          MaxSplits

VARIABLES policy,
          split,     \* the splits so far, each [secret, coeffs]
          writing,   \* the number of the next share to write, 0 when none is
          shareFile, \* index -> [split, value]; split 0 when there is no file
          recovered  \* the last recovery, or Nothing

shamirVars == <<policy, split, writing, shareFile, recovered>>

NoShare == [split |-> 0, value |-> 0]
Nothing == [byte |-> -1, from |-> {}]

ShamirInit(on) ==
  /\ policy \in IF on THEN Policies ELSE {[threshold |-> 0, shares |-> 0]}
  /\ split = <<>>
  /\ writing = 0
  /\ shareFile = [i \in 1..policy.shares |-> NoShare]
  /\ recovered = Nothing

\* Also the policy test of split_secret; "off" has a policy that fails it.
validate_shamir_config ==
  0 < policy.threshold /\ policy.threshold <= policy.shares /\ policy.shares <= 255

(* --- the field ------------------------------------------------------------ *)

\* coeffs[1] + coeffs[2] x + ..., by Horner's rule from the last one.
gf_eval(coeffs, x) ==
  LET result[i \in 1..Len(coeffs) + 1] ==
        IF i > Len(coeffs) THEN 0 ELSE (result[i + 1] * x + coeffs[i]) % SHAMIR_PRIME
  IN result[1]

\* Truncating division, as for i64, of a nonnegative number.
gf_inv(x) ==
  LET euclid[new_r \in Nat, r \in Nat, t \in Int, new_t \in Int] ==
        IF new_r = 0 THEN <<r, t>>
        ELSE LET quotient == r \div new_r
             IN euclid[r - quotient * new_r, new_r, new_t, t - quotient * new_t]
      end == euclid[x, SHAMIR_PRIME, 0, 1]
  IN IF end[1] # 1 THEN 0 ELSE IF end[2] < 0 THEN end[2] + SHAMIR_PRIME ELSE end[2]

\* A slip: the denominator has its terms the wrong way round.
gf_lagrange_origin_swapped(points) ==
  LET Product(i, F(_)) ==
        FoldFunctionOnSet(LAMBDA a, b : (a * b) % SHAMIR_PRIME, 1,
                          [j \in 1..Len(points) |-> F(j)], (1..Len(points)) \ {i})
      lag(i) == (Product(i, LAMBDA j : (2 * SHAMIR_PRIME - points[j][1]) % SHAMIR_PRIME)
                 * gf_inv(Product(i, LAMBDA j : (SHAMIR_PRIME + points[j][1] - points[i][1])
                                                  % SHAMIR_PRIME))) % SHAMIR_PRIME
  IN FoldFunction(LAMBDA a, b : (a + b) % SHAMIR_PRIME, 0,
                  [i \in 1..Len(points) |-> (points[i][2] * lag(i)) % SHAMIR_PRIME])

\* The value at zero of the polynomial through the points <<x, y>>.
gf_lagrange_origin(points) ==
  LET Product(i, F(_)) ==
        FoldFunctionOnSet(LAMBDA a, b : (a * b) % SHAMIR_PRIME, 1,
                          [j \in 1..Len(points) |-> F(j)], (1..Len(points)) \ {i})
      lag(i) == (Product(i, LAMBDA j : (2 * SHAMIR_PRIME - points[j][1]) % SHAMIR_PRIME)
                 * gf_inv(Product(i, LAMBDA j : (SHAMIR_PRIME + points[i][1] - points[j][1])
                                                  % SHAMIR_PRIME))) % SHAMIR_PRIME
  IN FoldFunction(LAMBDA a, b : (a + b) % SHAMIR_PRIME, 0,
                  [i \in 1..Len(points) |-> (points[i][2] * lag(i)) % SHAMIR_PRIME])

(* --- the commands ---------------------------------------------------------- *)

\* split_secret: the secret is the constant term, the others are random.
split_secret(secret, random) ==
  /\ validate_shamir_config
  /\ writing = 0 /\ Len(split) < MaxSplits
  /\ split' = Append(split, [secret |-> secret, coeffs |-> <<secret>> \o random])
  /\ writing' = 1
  /\ recovered' = Nothing
  /\ UNCHANGED <<policy, shareFile>>

\* One round of write_shamir_shares.
write_shamir_share ==
  /\ writing > 0
  /\ shareFile' = [shareFile EXCEPT ![writing] =
       [split |-> Len(split), value |-> gf_eval(split[Len(split)].coeffs, writing)]]
  /\ writing' = IF writing = policy.shares THEN 0 ELSE writing + 1
  /\ UNCHANGED <<policy, split, recovered>>

SplitStops ==
  /\ writing > 0
  /\ writing' = 0
  /\ UNCHANGED <<policy, split, shareFile, recovered>>

\* Distinct share numbers, in any order.
ShareChoices == UNION {{s \in [1..n -> 1..policy.shares] : IsInjective(s)} : n \in 1..policy.shares}

\* handle_shamir_recover with the files of some numbers, in the order given;
\* recover_secret_from_shares uses the first threshold ones.
recover_secret_from_shares ==
  /\ validate_shamir_config
  /\ writing = 0 /\ recovered = Nothing
  /\ \E indices \in ShareChoices :
       /\ Len(indices) >= policy.threshold
       /\ \A i \in 1..Len(indices) : shareFile[indices[i]] # NoShare
       /\ LET used == SubSeq(indices, 1, policy.threshold)
              points == [i \in 1..Len(used) |-> <<used[i], shareFile[used[i]].value>>]
          IN recovered' = [byte |-> gf_lagrange_origin(points) % 256,
                           from |-> {shareFile[used[i]].split : i \in 1..Len(used)}]
  /\ UNCHANGED <<policy, split, writing, shareFile>>

ShamirNext ==
  \/ \E secret \in Secrets, random \in [1..policy.threshold - 1 -> FieldElements] :
       split_secret(secret, random)
  \/ write_shamir_share
  \/ SplitStops
  \/ recover_secret_from_shares

(* --- property --------------------------------------------------------------- *)

(***************************************************************************)
(* Any threshold-many shares of one split, in any order and whichever of   *)
(* FieldElements the random coefficients were, give its secret back.       *)
(* Nothing is said of shares of two splits, which the files do not tell    *)
(* apart.                                                                  *)
(***************************************************************************)
AnyThresholdRecovers ==
  \A n \in 1..Len(split) : recovered.from = {n} => recovered.byte = split[n].secret
=============================================================================
