------------------------------- MODULE Decay -------------------------------
(***************************************************************************)
(* The decay of an item (src/src/game.cpp, item.cpp): startDecay lists it, *)
(* cleanup() moves it to one of the buckets of a ring, and checkDecay goes *)
(* over the next bucket every second.  A second is the unit of time.       *)
(* Items do not touch each other here, so the module follows one.          *)
(*                                                                         *)
(* The item may be transformed by those who use, wear or drop it and by    *)
(* scripts, listed or not, and more than one list may hold it at a time.   *)
(***************************************************************************)
EXTENDS Integers, FiniteSets

CONSTANTS
  K,           \* EVENT_DECAYBUCKETS
  Types,
  DecayTime,   \* of a type, 0 for none
  DecayTo,     \* of a type: a type, Gone, or Never
  StopTime,    \* the types that keep the time left
  Gone, Never,
  Transforms,  \* the pairs of types players and scripts transform between
  MaxListings  \* how often the item may be listed at a time

(* What decays keeps no time, and what it decays to is listed at once.     *)
DecayAssumption ==
  /\ K \in Nat /\ K > 1 /\ MaxListings \in Nat
  /\ Gone \notin Types /\ Never \notin Types
  /\ \A t \in Types :
       /\ DecayTime[t] \in Nat /\ DecayTo[t] \in Types \cup {Gone, Never}
       /\ DecayTime[t] > 0 => t \notin StopTime

NoTime == -1  \* there is no duration attribute
Buckets == 0 .. K - 1

VARIABLES
  item,       \* the item: see Items
  lastBucket,
  span,       \* history: its time when it came into its bucket
  age,        \* history: the seconds since
  reset       \* history: its time was set anew while it was listed

vars == <<item, lastBucket, span, age, reset>>

Items ==
  [type : Types, duration : Int, decaying : BOOLEAN, inWorld : BOOLEAN,
   refs : Nat, freed : Nat, toDecay : Nat, listings : [Buckets -> Nat]]

Listings(i) ==
  i.toDecay + Cardinality({l \in Buckets \X (1..MaxListings + 1) : l[2] <= i.listings[l[1]]})

TimeLeft(i) == IF i.duration = NoTime THEN 0 ELSE i.duration
CanDecay(i) == i.inWorld /\ DecayTo[i.type] # Never /\ DecayTime[i.type] > 0

Created(t) ==
  [type |-> t, duration |-> IF DecayTime[t] > 0 THEN DecayTime[t] ELSE NoTime,
   decaying |-> FALSE, inWorld |-> TRUE, refs |-> 1, freed |-> 0, toDecay |-> 0,
   listings |-> [b \in Buckets |-> 0]]

Init ==
  /\ \E t \in Types : item = Created(t)
  /\ lastBucket = 0
  /\ span = 0 /\ age = 0
  /\ reset = FALSE
-----------------------------------------------------------------------------
(* Item::setID: what becomes plain loses its time, what decays gets one    *)
(* unless it kept one.                                                     *)
Plain(t) == DecayTime[t] = 0 /\ t \notin StopTime /\ DecayTo[t] = Never
TimesAnew(i, t) == DecayTime[t] > 0 /\ (i.type \notin StopTime \/ i.duration = NoTime)

SetID(i, t) ==
  IF Plain(t) THEN [i EXCEPT !.type = t, !.decaying = FALSE, !.duration = NoTime]
  ELSE IF TimesAnew(i, t)
    THEN [i EXCEPT !.type = t, !.decaying = FALSE, !.duration = DecayTime[t]]
  ELSE [i EXCEPT !.type = t]

Removed(i) == [i EXCEPT !.inWorld = FALSE, !.freed = @ + 1]

Listed(i) == [i EXCEPT !.decaying = TRUE, !.toDecay = @ + 1, !.refs = @ + 1]

(* internalDecayItem, with the startDecay of what the item turns into.     *)
InternalDecayItem(i) ==
  LET next == SetID(i, DecayTo[i.type])
  IN IF DecayTo[i.type] = Gone THEN Removed(i)
     ELSE IF CanDecay(next) /\ ~next.decaying THEN Listed(next)
     ELSE next

StartDecay(i) ==
  IF ~CanDecay(i) \/ i.decaying THEN i
  ELSE IF TimeLeft(i) > 0 THEN Listed(i)
  ELSE InternalDecayItem(i)

(* Mutant: the time runs out a second too soon.                            *)
BucketEarly(b, time) == (b + time - 1) % K

(* Times are whole seconds below K here: the rounding to seconds changes   *)
(* nothing, and no time leads back to the bucket the item comes from.      *)
BucketIn(b, time) == (b + time) % K

(* What checkDecay does with one listing of the item.  It takes the time   *)
(* away before it asks whether the item still decays.                      *)
Handled(i, b) ==
  LET spent == [i EXCEPT !.duration = IF @ = NoTime THEN @ ELSE IF @ < K THEN 0 ELSE @ - K]
      dropped == [spent EXCEPT !.listings[b] = @ - 1]
  IN IF ~CanDecay(spent) THEN [dropped EXCEPT !.decaying = FALSE, !.freed = @ + 1]
     ELSE IF TimeLeft(spent) = 0 THEN [InternalDecayItem(dropped) EXCEPT !.freed = @ + 1]
     ELSE IF TimeLeft(spent) < K
       THEN [dropped EXCEPT !.listings[BucketIn(b, spent.duration)] = @ + 1]
     ELSE spent

(* cleanup(): what is freed loses a reference, what is listed its bucket.  *)
CleanedUp(i, last) ==
  LET b == IF TimeLeft(i) >= K THEN last ELSE BucketIn(last + 1, TimeLeft(i)) IN
  [i EXCEPT !.refs = @ - i.freed, !.freed = 0, !.toDecay = 0, !.listings[b] = @ + i.toDecay]

(* The clock starts when the item comes into a bucket and is in no other,  *)
(* and stops a little after its time.                                      *)
Track(before, after, ticks) ==
  IF before.toDecay = 1 /\ Listings(before) = 1
    THEN span' = TimeLeft(after) /\ age' = 0
    ELSE /\ span' = span
         /\ age' = IF Listings(after) = 0 THEN 0 ELSE IF age > span THEN age ELSE age + ticks
-----------------------------------------------------------------------------
(* checkCreatures calls cleanup() too, ten times a second.                 *)
Cleanup ==
  /\ item.freed + item.toDecay > 0
  /\ item' = CleanedUp(item, lastBucket)
  /\ Track(item, item', 0)
  /\ UNCHANGED <<lastBucket, reset>>

CheckDecay ==
  LET b == (lastBucket + 1) % K
      n == item.listings[b]
      once == IF n > 0 THEN Handled(item, b) ELSE item
      all == IF n > 1 THEN Handled(once, b) ELSE once
  IN
  /\ n < 3
  /\ Listings(all) <= MaxListings
  /\ item' = CleanedUp(all, b)
  /\ lastBucket' = b
  /\ Track(all, item', 1)
  \* Forgotten once the listings it had are gone.
  /\ reset' = (reset /\ Listings(all) > 0 /\ ~(n = 1 /\ Listings(item) = 1 /\ all.toDecay = 1))

Start ==
  /\ item.inWorld
  /\ item' = StartDecay(item)
  /\ Listings(item') <= MaxListings
  /\ UNCHANGED <<lastBucket, span, age, reset>>

(* Worn, used or changed by a script; not all of them call startDecay.     *)
Transform(t) ==
  LET changed == SetID(item, t) IN
  /\ item.inWorld
  /\ <<item.type, t>> \in Transforms
  /\ item' \in {changed, StartDecay(changed)}
  /\ Listings(item') <= MaxListings
  /\ reset' = (reset \/ (Listings(item) > 0 /\ (Plain(t) \/ TimesAnew(item, t))))
  /\ UNCHANGED <<lastBucket, span, age>>

(* Thrown away, or replaced by a new item.                                 *)
Remove ==
  /\ item.inWorld
  /\ item' = Removed(item)
  /\ UNCHANGED <<lastBucket, span, age, reset>>

Next ==
  \/ Cleanup
  \/ CheckDecay
  \/ Start
  \/ \E t \in Types : Transform(t)
  \/ Remove

Spec == Init /\ [][Next]_vars
-----------------------------------------------------------------------------
TypeOK ==
  /\ item \in Items
  /\ lastBucket \in Buckets
  /\ span \in Nat /\ age \in Nat
  /\ reset \in BOOLEAN

(***************************************************************************)
(* Every listing, like the world and every pending release, counts on the  *)
(* item: it is not deleted while checkDecay will come to it, however it is *)
(* transformed, removed and listed again.                                  *)
(***************************************************************************)
ListedItemExists ==
  item.refs = Listings(item) + item.freed + (IF item.inWorld THEN 1 ELSE 0)

(***************************************************************************)
(* Whoever thinks it is decaying and has time left is listed - startDecay  *)
(* would not list it again -, and once only unless its time was set anew   *)
(* while it was listed.                                                    *)
(***************************************************************************)
DecayingIsListed ==
  /\ item.decaying /\ TimeLeft(item) > 0 => Listings(item) > 0
  /\ Listings(item) > 1 => reset

(***************************************************************************)
(* An item whose time was not touched while it was listed decays when that *)
(* time is over, to the second, through any number of turns of the ring.   *)
(***************************************************************************)
OnTime ==
  (/\ lastBucket' # lastBucket /\ ~reset /\ item.toDecay = 0
   /\ <<item'.type, item'.inWorld>> # <<item.type, item.inWorld>>)
    => age + 1 \in {span, span + 1}
=============================================================================
