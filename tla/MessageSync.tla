----------------------------- MODULE MessageSync -----------------------------
(***************************************************************************)
(* MessagesService.getMessages under concurrent senders.  A device keeps a   *)
(* window of a conversation, seeded with the latest page and extended with    *)
(* afterSequence pages at the top and beforeSequence pages at the bottom.     *)
(* Each page is one SELECT and sees the rows committed when it starts.        *)
(* Realtime broadcasts only hasten the next page, so they are left out: a      *)
(* device may ask at any time.  What the device does with a page is the        *)
(* protocol the cursor endpoints were written for; the client is not in this    *)
(* repository.                                                                *)
(***************************************************************************)
EXTENDS Messaging, FiniteSetsExt

CONSTANTS
    Device,         \* clients reading a conversation they are a member of
    Watches,        \* the conversation each device shows
    PageLimit       \* the "limit" query parameter

ASSUME WatchesAssumption == Watches \in [Device -> Conversation]

ASSUME PageLimitAssumption == PageLimit \in Nat \ {0}

VARIABLE view       \* view[d]: the device's window of the conversation

syncVars == <<vars, view>>

(* The window is [low, high]; "first" says the server has reported that       *)
(* nothing precedes it.                                                       *)
Window ==
    [low : Nat \ {0}, high : Nat, seen : SUBSET Message, first : BOOLEAN]

SyncTypeOK == TypeOK /\ view \in [Device -> Window]

SyncInit ==
    /\ Init
    /\ view = [d \in Device |->
                 [low |-> 1, high |-> 0, seen |-> {}, first |-> FALSE]]

(* orderBy sequence asc (desc), take limit: limit + 1 rows are fetched only to *)
(* tell whether more follow.                                                   *)
OldestOf(R) ==
    {m \in R : Cardinality({x \in R : x.sequence < m.sequence}) < PageLimit}
NewestOf(R) ==
    {m \in R : Cardinality({x \in R : x.sequence > m.sequence}) < PageLimit}
HasMore(R) == Cardinality(R) > PageLimit

NumbersOf(P) == {m.sequence : m \in P}

After(c, n) == {m \in Rows(c) : m.sequence > n}
Before(c, n) == {m \in Rows(c) : m.sequence < n}

(* previousCursor and nextCursor: null on an empty page, which leaves the       *)
(* window as it is.                                                             *)
LoadLatest(d) ==
    LET R == Rows(Watches[d])  P == NewestOf(R) IN
    /\ Watches[d] \in opened
    /\ view[d].seen = {}
    /\ P # {}
    /\ view' = [view EXCEPT ![d] =
          [low |-> Min(NumbersOf(P)), high |-> Max(NumbersOf(P)), seen |-> P,
           first |-> ~HasMore(R)]]
    /\ UNCHANGED vars

(* The unpaginated response: the whole conversation.                            *)
LoadAll(d) ==
    LET R == Rows(Watches[d]) IN
    /\ Watches[d] \in opened
    /\ R # {}
    /\ view' = [view EXCEPT ![d] =
          [low |-> 1, high |-> Max(NumbersOf(R)), seen |-> R, first |-> TRUE]]
    /\ UNCHANGED vars

(* Mutant: pages after a cursor are taken from the newest end. *)
CatchUpNewest(d) ==
    LET P == NewestOf(After(Watches[d], view[d].high)) IN
    /\ Watches[d] \in opened
    /\ P # {}
    /\ view' = [view EXCEPT ![d].high = Max(NumbersOf(P)), ![d].seen = @ \cup P]
    /\ UNCHANGED vars

(* Mutant: nextCursor repeats the cursor of the request. *)
CatchUpInPlace(d) ==
    LET P == OldestOf(After(Watches[d], view[d].high)) IN
    /\ Watches[d] \in opened
    /\ P # {}
    /\ view' = [view EXCEPT ![d].seen = @ \cup P]
    /\ UNCHANGED vars

CatchUp(d) ==
    LET P == OldestOf(After(Watches[d], view[d].high)) IN
    /\ Watches[d] \in opened
    /\ P # {}
    /\ view' = [view EXCEPT ![d].high = Max(NumbersOf(P)),
                            ![d].seen = @ \cup P]
    /\ UNCHANGED vars

LoadOlder(d) ==
    LET R == Before(Watches[d], view[d].low)  P == NewestOf(R) IN
    /\ Watches[d] \in opened
    /\ view[d].seen # {}
    /\ view' = [view EXCEPT ![d].low = IF P = {} THEN @ ELSE Min(NumbersOf(P)),
                            ![d].seen = @ \cup P,
                            ![d].first = ~HasMore(R)]
    /\ UNCHANGED vars

SyncNext ==
    \/ Next /\ UNCHANGED view
    \/ \E d \in Device : LoadLatest(d) \/ LoadAll(d) \/ CatchUp(d) \/ LoadOlder(d)

SyncSpec == SyncInit /\ [][SyncNext]_syncVars

(* A device that stays connected keeps asking for what is after its cursor:     *)
(* MESSAGING_REALTIME_SETUP.md promises a 15-second fallback catch-up.  The       *)
(* senders make progress as in FairSpec.                                        *)
SyncFairSpec ==
    /\ SyncSpec
    /\ SendersProgress
    /\ \A d \in Device : WF_syncVars(CatchUp(d))

-----------------------------------------------------------------------------
(* A window never has a hole: it holds every message numbered from its lowest    *)
(* to its highest, although senders commit between any two pages, and once a      *)
(* page has reported that nothing is older, nothing older ever appears.           *)
WindowIsComplete ==
    \A d \in Device :
        /\ view[d].seen = {m \in Rows(Watches[d]) :
                            view[d].low <= m.sequence /\ m.sequence <= view[d].high}
        /\ view[d].first => Before(Watches[d], view[d].low) = {}

(* Provided it keeps asking, a device is caught up again and again, whatever is    *)
(* sent meanwhile: it has every message but the history before the first page it  *)
(* loaded.                                                                        *)
EveryMessageArrives ==
    \A d \in Device :
        []<>\A m \in Rows(Watches[d]) : m \in view[d].seen \/ m.sequence < view[d].low

=============================================================================
