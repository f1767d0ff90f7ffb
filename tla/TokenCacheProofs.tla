-------------------------- MODULE TokenCacheProofs --------------------------
(***************************************************************************)
(* Proofs about TokenCache for any tokens, requests, ttl and delay.        *)
(***************************************************************************)
EXTENDS TokenCache, TLAPS

\* A token the API server accepts was last accepted now.
ValidInv == \A t \in Tokens : lastValid[t] <= now /\ (t \in valid => lastValid[t] = now)

\* An answer on its way to the cache is at most Delay old, and its token was
\* valid when it was given.
StoreInv ==
    \A r \in Reqs : req[r].pc = "store" =>
        req[r].at <= lastValid[req[r].tok] /\ req[r].at <= now /\ now - req[r].at <= Delay

\* An entry was stored at most Delay after its token was valid.
EntryInv ==
    \A t \in Tokens : entries[t].in =>
        entries[t].storedAt <= now /\ entries[t].storedAt - lastValid[t] <= Delay

\* The last tick left no entry that was ttl old.
TickInv ==
    /\ now <= nextTick /\ nextTick - 2 * ttl <= now
    /\ \A t \in Tokens : entries[t].in => nextTick - 3 * ttl < entries[t].storedAt

IInv == TypeOK /\ ValidInv /\ StoreInv /\ EntryInv /\ TickInv

USE TimesAssumption

LEMMA InitIInv == Init => IInv
  BY DEF Init, IInv, TypeOK, ValidInv, StoreInv, EntryInv, TickInv, Times, Entry, NoEntry,
         Request

LEMMA NextIInv == IInv /\ [Next]_vars => IInv'
<1> SUFFICES ASSUME IInv, [Next]_vars PROVE IInv'
  OBVIOUS
<1> USE DEF IInv, TypeOK, Times, Entry, Request
<1>1. ASSUME NEW r \in Reqs, NEW t \in Tokens, authenticate(r, t) PROVE IInv'
  <2> USE <1>1 DEF authenticate, Serve
  <2>1. TypeOK' OBVIOUS
  <2>2. ValidInv' /\ EntryInv' /\ TickInv' BY DEF ValidInv, EntryInv, TickInv
  <2>3. StoreInv' BY DEF StoreInv
  <2> QED BY <2>1, <2>2, <2>3
<1>2. ASSUME NEW r \in Reqs, Review(r) PROVE IInv'
  <2> USE <1>2 DEF Review, Serve
  <2>1. TypeOK' OBVIOUS
  <2>2. ValidInv' /\ EntryInv' /\ TickInv' BY DEF ValidInv, EntryInv, TickInv
  <2>3. StoreInv' BY DEF StoreInv, ValidInv
  <2> QED BY <2>1, <2>2, <2>3
<1>3. ASSUME NEW r \in Reqs, Store(r) PROVE IInv'
  <2> USE <1>3 DEF Store
  <2>1. TypeOK' OBVIOUS
  <2>2. ValidInv' /\ StoreInv' BY DEF ValidInv, StoreInv
  <2>3. EntryInv' BY DEF EntryInv, StoreInv
  <2>4. TickInv'
    <3>1. nextTick - 3 * ttl < now
      <4>1. nextTick - 2 * ttl <= now BY DEF TickInv
      <4>2. now \in Int /\ nextTick \in Int OBVIOUS
      <4> QED BY ONLY <4>1, <4>2, TimesAssumption
    <3>2. req[r].tok \in Tokens OBVIOUS
    <3>3. ASSUME NEW t \in Tokens, entries'[t].in PROVE nextTick - 3 * ttl < entries'[t].storedAt
      <4>1. CASE t = req[r].tok BY <3>1, <3>2, <4>1
      <4>2. CASE t # req[r].tok BY <3>3, <4>2 DEF TickInv
      <4> QED BY <4>1, <4>2
    <3> QED BY <3>3 DEF TickInv
  <2> QED BY <2>1, <2>2, <2>3, <2>4
<1>4. ASSUME NEW r \in Reqs, Done(r) PROVE IInv'
  BY <1>4 DEF Done, ValidInv, StoreInv, EntryInv, TickInv
<1>5. CASE evictLoop
  <2> USE <1>5 DEF evictLoop, Fresh, NoEntry
  <2>1. TypeOK' OBVIOUS
  <2>2. ValidInv' /\ StoreInv' /\ EntryInv' BY DEF ValidInv, StoreInv, EntryInv
  <2>3. TickInv' BY DEF TickInv
  <2> QED BY <2>1, <2>2, <2>3
<1>6. CASE Tick
  <2> USE <1>6 DEF Tick
  <2>1. TypeOK' OBVIOUS
  <2>2. ValidInv' BY DEF ValidInv
  <2>3. \A t \in Tokens : lastValid[t] <= lastValid'[t] BY DEF ValidInv
  <2>4. StoreInv' /\ EntryInv' BY <2>3 DEF StoreInv, EntryInv
  <2>5. TickInv' BY DEF TickInv
  <2> QED BY <2>1, <2>2, <2>4, <2>5
<1>7. ASSUME NEW t \in Tokens, Revoke(t) PROVE IInv'
  BY <1>7 DEF Revoke, ValidInv, StoreInv, EntryInv, TickInv
<1>8. ASSUME NEW t \in Tokens, Issue(t) PROVE IInv'
  BY <1>8 DEF Issue, ValidInv, StoreInv, EntryInv, TickInv
<1>9. CASE UNCHANGED vars
  BY <1>9 DEF vars, ValidInv, StoreInv, EntryInv, TickInv
<1> QED BY <1>1, <1>2, <1>3, <1>4, <1>5, <1>6, <1>7, <1>8, <1>9 DEF Next

LEMMA Invariance == Spec => []IInv
  BY InitIInv, NextIInv, PTL DEF Spec

\* Types of all variables of the token reviewer.
THEOREM TypeCorrect == Spec => []TypeOK
  BY Invariance, PTL DEF IInv

\* evictLoop keeps no entry for three times ttl.
THEOREM EntriesAreEvicted == Spec => []EntriesExpire
<1>1. IInv => EntriesExpire
  BY DEF IInv, TypeOK, TickInv, EntriesExpire, Times, Entry
<1> QED BY <1>1, Invariance, PTL

\* authenticate accepts no token the API server has refused for ttl plus the
\* delay of an answer.
THEOREM AcceptanceIsRecent == Spec => AcceptsRecent
<1> DEFINE Recent(r) == LET t == req'[r].tok IN
             req[r].pc # "accepted" /\ req'[r].pc = "accepted" /\ t # DevToken
                => now - lastValid[t] < ttl + Delay
<1>1. ASSUME IInv, [Next]_vars, NEW r \in Reqs PROVE Recent(r)
  <2> USE <1>1 DEF IInv, TypeOK, Times, Entry, Request
  <2>1. ASSUME NEW q \in Reqs, NEW t \in Tokens, authenticate(q, t) PROVE Recent(r)
    <3> SUFFICES ASSUME req[r].pc # "accepted", req'[r].pc = "accepted", req'[r].tok # DevToken
                 PROVE  now - lastValid[req'[r].tok] < ttl + Delay
      OBVIOUS
    <3>1. q = r /\ req'[r].tok = t BY <2>1 DEF authenticate, Serve
    <3>2. Fresh(entries[t]) BY <2>1, <3>1 DEF authenticate, Serve
    <3>3. entries[t].storedAt \in Int /\ lastValid[t] \in Int /\ now \in Int OBVIOUS
    <3>4. now - lastValid[t] < ttl + Delay BY <3>2, <3>3 DEF Fresh, EntryInv
    <3> QED BY <3>1, <3>4
  <2>2. ASSUME NEW q \in Reqs, Review(q) PROVE Recent(r)
    BY <2>2 DEF Review, Serve
  <2>3. ASSUME NEW q \in Reqs, Store(q) PROVE Recent(r)
    <3> SUFFICES ASSUME req[r].pc # "accepted", req'[r].pc = "accepted"
                 PROVE  now - lastValid[req'[r].tok] < ttl + Delay
      OBVIOUS
    <3>1. q = r /\ req'[r].tok = req[r].tok BY <2>3 DEF Store
    <3>2. now - req[r].at <= Delay /\ req[r].at <= lastValid[req[r].tok]
      BY <2>3, <3>1 DEF Store, StoreInv
    <3>3. now \in Int /\ req[r].at \in Int /\ lastValid[req[r].tok] \in Int OBVIOUS
    <3>4. ttl \in Nat /\ ttl > 0 /\ Delay \in Nat BY TimesAssumption
    <3>5. now - lastValid[req[r].tok] < ttl + Delay BY ONLY <3>2, <3>3, <3>4
    <3> QED BY ONLY <3>1, <3>5
  <2>4. ASSUME NEW q \in Reqs, Done(q) PROVE Recent(r)
    BY <2>4 DEF Done
  <2>5. CASE evictLoop \/ Tick \/ \E t \in Tokens : Revoke(t) \/ Issue(t)
    BY <2>5 DEF evictLoop, Tick, Revoke, Issue
  <2>6. CASE UNCHANGED vars
    BY <2>6 DEF vars
  <2> QED BY <2>1, <2>2, <2>3, <2>4, <2>5, <2>6 DEF Next
<1>2. IInv /\ [Next]_vars => [\A r \in Reqs : Recent(r)]_vars
  BY <1>1
<1> QED BY <1>2, Invariance, PTL DEF Spec, AcceptsRecent

=============================================================================
