------------------------------- MODULE Limits -------------------------------
(***************************************************************************)
(* The sliding windows of api/auth.py: questions per user, and failed      *)
(* sign-ins per name in the login of api/routes/auth.py.                   *)
(*                                                                         *)
(* A question is checked and counted under one lock.  A sign-in is checked *)
(* first, then verified (slowly, by Argon2) and counted after, so that     *)
(* several may pass the check before any is counted.  The two limiters     *)
(* have nothing in common but the class: "use" says which one this is.     *)
(*                                                                         *)
(* A limiter is its dictionary: the order its keys were put in, and each   *)
(* key's events by age, newest first.  Events that left the window are     *)
(* dropped at once, since nothing reads them; their key stays.             *)
(***************************************************************************)
EXTENDS Integers, Sequences, FiniteSets

CONSTANTS
  Keys,      \* user ids, or user names
  Attempts,  \* sign-ins that may be under way at once
  Limit,     \* auth_rate_limit_per_minute, auth_login_max_failures
  Window,    \* window_seconds, in ticks
  MaxKeys,   \* max_keys
  NoKey      \* an attempt that is not under way

ASSUME LimitsAssumption ==
  /\ {Limit, Window, MaxKeys} \subseteq Nat \ {0}
  /\ IsFiniteSet(Attempts)
  /\ NoKey \notin Keys

VARIABLES
  use,      \* "questions" or "sign-ins"
  place,    \* each key's place in _events, 0 if it is not there
  events,   \* _events: the ages of a key's events
  attempt,  \* the sign-ins under way
  spent     \* history: the age of each question let through and each wrong
            \* password tried, since the key's count was thrown away

limitVars == <<use, place, events, attempt, spent>>

Waiting == [pc |-> "off", key |-> NoKey]

LimitsInit ==
  /\ use \in {"questions", "sign-ins"}
  /\ place = [k \in Keys |-> 0]
  /\ events = [k \in Keys |-> <<>>]
  /\ attempt = [t \in Attempts |-> Waiting]
  /\ spent = [k \in Keys |-> <<>>]

-----------------------------------------------------------------------------
(* SlidingWindowRateLimiter.                                               *)
KeysOf(places) == {k \in Keys : places[k] # 0}

(* Mutant: one event too many.                                             *)
Allowed_OneMore(k) == Len(events[k]) <= Limit

(* _raise_if_limited.                                                      *)
Allowed(k) == Len(events[k]) < Limit

(* A key that is there keeps its place in the dictionary.                  *)
Entered(k) ==
  IF place[k] # 0 THEN place
  ELSE [place EXCEPT ![k] = Cardinality(KeysOf(place)) + 1]

(* The dictionary without some keys: the others move up.                   *)
Without(places, gone) ==
  [k \in Keys |->
     IF k \in gone \/ places[k] = 0 THEN 0
     ELSE Cardinality({j \in KeysOf(places) \ gone : places[j] <= places[k]})]

(* The first keys go, as many as are too many.                             *)
Shortened(places) ==
  Without(places, {k \in Keys : places[k] <= Cardinality(KeysOf(places)) - MaxKeys})

(* Mutant: the first keys go, stale or not.                                *)
Trimmed_First(places, evts) == Shortened(places)

(* Over max_keys: the keys without recent events go, then the first ones.  *)
Trimmed(places, evts) == Shortened(Without(places, {k \in Keys : evts[k] = <<>>}))

(* _record.                                                                *)
Record(k) ==
  LET evts == [events EXCEPT ![k] = <<0>> \o @]
      kept == IF Cardinality(KeysOf(Entered(k))) > MaxKeys
              THEN Trimmed(Entered(k), evts) ELSE Entered(k)
  IN  /\ place' = kept
      /\ events' = [j \in Keys |-> IF kept[j] # 0 THEN evts[j] ELSE <<>>]

(* Of a history, what belongs to keys whose count was not thrown away.     *)
StillCounted(history) ==
  [k \in Keys |-> IF events[k] # <<>> /\ events'[k] = <<>> THEN <<>> ELSE history[k]]

-----------------------------------------------------------------------------
(* POST /questions/ask: check, which counts the question if it is allowed. *)
Ask(k) ==
  /\ use = "questions"
  /\ Allowed(k)
  /\ Record(k)
  /\ spent' = StillCounted([spent EXCEPT ![k] = <<0>> \o @])
  /\ UNCHANGED <<use, attempt>>

(* login: ensure_allowed ...                                               *)
SignIn(t, k) ==
  /\ use = "sign-ins"
  /\ attempt[t] = Waiting
  /\ Allowed(k)
  /\ attempt' = [attempt EXCEPT ![t] = [pc |-> "verifying", key |-> k]]
  /\ UNCHANGED <<use, place, events, spent>>

(* ... the verification ...                                                *)
WrongPassword(t) ==
  /\ attempt[t].pc = "verifying"
  /\ attempt' = [attempt EXCEPT ![t].pc = "wrong"]
  /\ spent' = [spent EXCEPT ![attempt[t].key] = <<0>> \o @]
  /\ UNCHANGED <<use, place, events>>

RightPassword(t) ==
  /\ attempt[t].pc = "verifying"
  /\ attempt' = [attempt EXCEPT ![t].pc = "right"]
  /\ UNCHANGED <<use, place, events, spent>>

(* ... and record, which may throw other keys out, or reset.               *)
RecordFailure(t) ==
  /\ attempt[t].pc = "wrong"
  /\ Record(attempt[t].key)
  /\ attempt' = [attempt EXCEPT ![t] = Waiting]
  /\ spent' = StillCounted(spent)
  /\ UNCHANGED use

Reset(t) ==
  /\ attempt[t].pc = "right"
  /\ place' = Without(place, {attempt[t].key})
  /\ events' = [events EXCEPT ![attempt[t].key] = <<>>]
  /\ attempt' = [attempt EXCEPT ![t] = Waiting]
  /\ spent' = [spent EXCEPT ![attempt[t].key] = <<>>]
  /\ UNCHANGED use

(* The API restarts, with empty dictionaries.                              *)
Restart ==
  /\ place' = [k \in Keys |-> 0]
  /\ events' = [k \in Keys |-> <<>>]
  /\ spent' = [k \in Keys |-> <<>>]
  /\ attempt' = [t \in Attempts |-> Waiting]
  /\ UNCHANGED use

(* Newest first: what leaves the window is at the end.                     *)
Older(ages) == [i \in {j \in DOMAIN ages : ages[j] + 1 < Window} |-> ages[i] + 1]

Tick ==
  /\ events' = [k \in Keys |-> Older(events[k])]
  /\ spent' = [k \in Keys |-> Older(spent[k])]
  /\ UNCHANGED <<use, place, attempt>>

LimitsNext ==
  \/ \E k \in Keys : Ask(k)
  \/ \E t \in Attempts :
       \/ \E k \in Keys : SignIn(t, k)
       \/ WrongPassword(t) \/ RightPassword(t) \/ RecordFailure(t) \/ Reset(t)
  \/ Restart
  \/ Tick

LimitsSpec == LimitsInit /\ [][LimitsNext]_limitVars

-----------------------------------------------------------------------------
(* Properties.                                                             *)

(* In no window are more questions answered than the limit allows, nor     *)
(* more passwords tried than that and the attempts that were under way at  *)
(* once, unless the key's count was thrown away: by a success, a restart,  *)
(* or for want of room.                                                    *)
WindowsHold ==
  \A k \in Keys :
    Len(spent[k]) <=
      IF use = "questions" THEN Limit ELSE Limit - 1 + Cardinality(Attempts)

(* The dictionary stays bounded, and a key's count is thrown away while    *)
(* its window runs only when every key left has one running too.           *)
LiveCountsStay ==
  [][/\ Cardinality(KeysOf(place')) <= MaxKeys
     /\ (\E k \in Keys : events[k] # <<>> /\ place'[k] = 0)
        => \/ Restart
           \/ \E t \in Attempts : Reset(t)
           \/ \A j \in KeysOf(place') : events'[j] # <<>>]_limitVars
=============================================================================
