------------------------------- MODULE Throttle -------------------------------
(* The buckets of the sign-in endpoint: one for the submitted identifier,     *)
(* which a verified password clears, and one for the address, which nothing   *)
(* clears.                                                                    *)
(*                                                                            *)
(* A bucket is the list of the times of its requests.  A request reads the    *)
(* list, and writes it back without what has left the window and with itself: *)
(* two commands of the cache, so that a request which read before another has *)
(* written overwrites the other.  Newest comes first in the list, so its      *)
(* order says nothing the times do not; it is modelled as the set of its      *)
(* entries, told apart by their requests as the code's microseconds do.       *)
EXTENDS Integers, FiniteSets

CONSTANTS
    Requests,       \* sign-ins with one identifier from one address
    Limit,          \* num_requests of each bucket
    Multiplier, Unit,   \* "<count>/<n><unit>": n and the length of the unit
    MaxTime         \* bound of the model

(* What is assumed of the constants. *)
RateAssumption ==
    /\ {Multiplier, Unit} \subseteq Nat \ {0} /\ MaxTime \in Nat
    /\ Limit \in [{"identity", "address"} -> Nat \ {0}]

VARIABLES
    stage,      \* of each request: the bucket it is at, "password" or its end
    asked,      \* self.now of its throttle between the two commands, or Never
    base,       \* the list it has read
    over,       \* has some bucket refused it?
    bucket,     \* the two lists
    now,
    counted,    \* history: what each bucket let through, or since it was cleared
    overlaps,   \* history: per bucket, writes of a list that was stale
    fresh       \* history: what each bucket let through since the last of them

vars == <<stage, asked, base, over, bucket, now, counted, overlaps, fresh>>
history == <<counted, overlaps, fresh>>

Buckets == {"identity", "address"}
Never == -1
NextStage == [identity |-> "address", address |-> "password"]
Entry == [by : Requests, at : 0 .. MaxTime]

(* Shape of the state. *)
TypeOK ==
    /\ stage \in [Requests -> Buckets \cup {"password", "signed in", "failed", "limited"}]
    /\ asked \in [Requests -> {Never} \cup 0 .. MaxTime]
    /\ base \in [Requests -> SUBSET Entry]
    /\ over \in [Requests -> BOOLEAN]
    /\ bucket \in [Buckets -> SUBSET Entry]
    /\ now \in 0 .. MaxTime
    /\ counted \in [Buckets -> SUBSET Entry]
    /\ overlaps \in [Buckets -> Nat]
    /\ fresh \in [Buckets -> SUBSET Entry]

Init ==
    /\ stage = [r \in Requests |-> "identity"]
    /\ asked = [r \in Requests |-> Never]
    /\ base = [r \in Requests |-> {}]
    /\ over = [r \in Requests |-> FALSE]
    /\ bucket = [b \in Buckets |-> {}]
    /\ now = 0
    /\ counted = [b \in Buckets |-> {}]
    /\ overlaps = [b \in Buckets |-> 0]
    /\ fresh = [b \in Buckets |-> {}]

-----------------------------------------------------------------------------
\* Mutation: the multiplier of the rate is dropped.
DurationUnit == Unit

(* parse_rate: a window may span several units. *)
Duration == Multiplier * Unit

Current(list, t) == {e \in list : e.at > t - Duration}

(* allow_request, first half: the list is read and judged.  check_throttles   *)
(* asks every bucket, also after one has refused.                             *)
Read(r, b) ==
    /\ stage[r] = b /\ asked[r] = Never
    /\ IF Cardinality(Current(bucket[b], now)) >= Limit[b]
       THEN /\ over' = [over EXCEPT ![r] = TRUE]
            /\ stage' = [stage EXCEPT ![r] = NextStage[b]]
            /\ UNCHANGED <<asked, base>>
       ELSE /\ asked' = [asked EXCEPT ![r] = now]
            /\ base' = [base EXCEPT ![r] = bucket[b]]
            /\ UNCHANGED <<over, stage>>
    /\ UNCHANGED <<bucket, now, history>>

(* throttle_success: the list is written back. *)
Write(r, b) ==
    LET new   == [by |-> r, at |-> asked[r]]
        stale == base[r] # bucket[b]
    IN
    /\ stage[r] = b /\ asked[r] # Never
    /\ bucket' = [bucket EXCEPT ![b] = Current(base[r], asked[r]) \cup {new}]
    /\ counted' = [counted EXCEPT ![b] = @ \cup {new}]
    /\ overlaps' = [overlaps EXCEPT ![b] = IF stale THEN @ + 1 ELSE @]
    /\ fresh' = [fresh EXCEPT ![b] = IF stale THEN {new} ELSE @ \cup {new}]
    /\ asked' = [asked EXCEPT ![r] = Never]
    /\ base' = [base EXCEPT ![r] = {}]
    /\ stage' = [stage EXCEPT ![r] = NextStage[b]]
    /\ UNCHANGED <<over, now>>

(* 429. *)
Limited(r) ==
    /\ stage[r] = "password" /\ over[r]
    /\ stage' = [stage EXCEPT ![r] = "limited"]
    /\ UNCHANGED <<asked, base, over, bucket, now, history>>

WrongPassword(r) ==
    /\ stage[r] = "password" /\ ~over[r]
    /\ stage' = [stage EXCEPT ![r] = "failed"]
    /\ UNCHANGED <<asked, base, over, bucket, now, history>>

(* clear_identity_throttle, once the password has been verified. *)
Emptied(lists) == [lists EXCEPT !["identity"] = {}]

SignsIn(r) ==
    /\ stage[r] = "password" /\ ~over[r]
    /\ bucket' = Emptied(bucket)
    /\ counted' = Emptied(counted) /\ fresh' = Emptied(fresh)
    /\ stage' = [stage EXCEPT ![r] = "signed in"]
    /\ UNCHANGED <<asked, base, over, now, overlaps>>

Tick ==
    /\ now < MaxTime
    /\ now' = now + 1
    /\ UNCHANGED <<stage, asked, base, over, bucket, history>>

-----------------------------------------------------------------------------
Next ==
    \/ \E r \in Requests, b \in Buckets : Read(r, b)
    \/ \E r \in Requests, b \in Buckets : Write(r, b)
    \/ \E r \in Requests : Limited(r)
    \/ \E r \in Requests : WrongPassword(r)
    \/ \E r \in Requests : SignsIn(r)
    \/ Tick

Spec == Init /\ [][Next]_vars

-----------------------------------------------------------------------------
(* The entries of one window of the length the rate names. *)
Within(entries, t) == {e \in entries : e.at > t - Multiplier * Unit /\ e.at <= t}

(* Within any one window a bucket lets no more requests through than its      *)
(* limit, and that many again for every request that overlapped another's     *)
(* write.  For the identifier only attempts since the last verified password  *)
(* count (ScopedWindowRateThrottle.parse_rate, allow_request).                *)
WindowBounded ==
    \A b \in Buckets, t \in 0 .. now :
        Cardinality(Within(counted[b], t)) <= Limit[b] * (1 + overlaps[b])

=============================================================================
