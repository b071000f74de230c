---------------------------- MODULE EngineProofs ----------------------------
(* Lemmas about the calls and mutexes of Engine, and about turns. *)
EXTENDS Engine, Sequences, TLAPS

\* lockConv picks one of the mutexes of the array.
LEMMA StripeInRange ==
    \A c \in Conv : StripeOf(c) \in 0 .. ConvLockStripes - 1
BY ConvAssumption DEF StripeOf

\* Spending from a bound keeps the count of the faults or adds one to it.
LEMMA SpendType ==
    ASSUME used \in [DOMAIN Bound -> Nat],
           NEW r \in DOMAIN Bound, Spend(r)
    PROVE  /\ used' \in [DOMAIN Bound -> Nat]
           /\ used'["faults"] >= used["faults"]
           /\ r = "faults" => used'["faults"] = used["faults"] + 1
BY DEF Spend, Bound

\* Spending touches one bound and adds one to what is spent of it.
LEMMA SpendOne ==
    ASSUME used \in [DOMAIN Bound -> Nat],
           NEW r \in DOMAIN Bound, Spend(r)
    PROVE  /\ used'[r] = used[r] + 1
           /\ \A q \in DOMAIN Bound : q # r => used'[q] = used[q]
BY DEF Spend, Bound

\* A call takes back nothing of what went wrong.
LEMMA CallGrows ==
    ASSUME used \in [DOMAIN Bound -> Nat],
           NEW t, NEW ok \in BOOLEAN, Call(t, ok)
    PROVE  \A q \in DOMAIN Bound :
               used[q] \in Nat /\ used'[q] \in Nat /\ used'[q] >= used[q]
BY SpendOne DEF Call, Bound

\* A call spends a fault exactly when it fails with a live context.
LEMMA CallType ==
    ASSUME used \in [DOMAIN Bound -> Nat],
           NEW t, NEW ok \in BOOLEAN, Call(t, ok)
    PROVE  /\ used' \in [DOMAIN Bound -> Nat]
           /\ used'["faults"] >= used["faults"]
           /\ live[t] /\ ~ok => used'["faults"] = used["faults"] + 1
           /\ ok => live[t]
BY SpendType DEF Call, Bound

\* A call is carried out or it is not.
LEMMA CarriedOutType ==
    ASSUME NEW t, NEW ok PROVE CarriedOut(t, ok) \in SUBSET BOOLEAN
BY DEF CarriedOut

\* The turn n is one of ts.
Holds(ts, n) == \E i \in DOMAIN ts : ts[i] = n

LEMMA HoldsAppend ==
    ASSUME NEW ts \in Seq(Nat), NEW n \in Nat
    PROVE  \A m : Holds(Append(ts, n), m) <=> Holds(ts, m) \/ m = n
<1> DEFINE new == Append(ts, n)
<1>1. /\ Len(ts) \in Nat /\ DOMAIN ts = 1 .. Len(ts)
      /\ DOMAIN new = 1 .. Len(ts) + 1
      /\ \A i \in 1 .. Len(ts) : new[i] = ts[i]
      /\ new[Len(ts) + 1] = n
  OBVIOUS
<1> HIDE DEF new
<1>2. ASSUME NEW m, Holds(new, m) PROVE Holds(ts, m) \/ m = n
  <2>1. PICK i \in 1 .. Len(ts) + 1 : new[i] = m
    BY <1>1, <1>2 DEF Holds
  <2>2. i \in 1 .. Len(ts) \/ i = Len(ts) + 1
    BY <1>1
  <2> QED
    BY <1>1, <2>1, <2>2 DEF Holds
<1>3. ASSUME NEW m, Holds(ts, m) \/ m = n PROVE Holds(new, m)
  <2>1. 1 .. Len(ts) \subseteq DOMAIN new /\ Len(ts) + 1 \in DOMAIN new
    BY <1>1
  <2> QED
    BY <1>1, <1>3, <2>1 DEF Holds
<1> QED
  BY <1>2, <1>3 DEF new
=============================================================================
