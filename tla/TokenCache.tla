----------------------------- MODULE TokenCache -----------------------------
(***************************************************************************)
(* The router's token reviewer (internal/router/auth.go): answers of the   *)
(* API server's TokenReview are cached for ttl.  The lock is not held      *)
(* during a review, so several requests may review the same token, and     *)
(* store their answers late and in any order.  Time is counted in units;   *)
(* authorizeResource is not cached and is part of what RouterSession calls *)
(* Refuse.                                                                 *)
(***************************************************************************)
EXTENDS Integers

CONSTANTS Tokens, Reqs,
          DevToken,  \* the static token; not in Tokens when none is configured
          ttl,       \* BOXY_AUTH_CACHE_TTL_SECONDS, 30 when not positive
          Delay,     \* the longest time from an answer of the API server to its
                     \* entry in the cache
          MaxTime    \* bound on the time

ASSUME TimesAssumption == ttl \in Nat \ {0} /\ Delay \in Nat /\ MaxTime \in Nat

VARIABLES now,
          valid,      \* the tokens the API server accepts
          lastValid,  \* history: when each token was last accepted there
          entries,    \* the cache
          nextTick,   \* when the ticker of evictLoop fires
          req

vars == <<now, valid, lastValid, entries, nextTick, req>>

Times == 0..MaxTime
Entry == [in : BOOLEAN, storedAt : Times]
NoEntry == [in |-> FALSE, storedAt |-> 0]

\* pc "review": the call is under way; "store": answered at time at;
\*    "accepted": authenticate has returned the user
Request == [pc : {"idle", "review", "store", "accepted"}, tok : Tokens, at : Times]

Serve(r, t, pc) == req' = [req EXCEPT ![r] = [pc |-> pc, tok |-> t, at |-> now]]

\* Mutant of Fresh: the entry lives one unit longer.
FreshLonger(e) == e.in /\ now - e.storedAt <= ttl

Fresh(e) == e.in /\ now - e.storedAt < ttl

-----------------------------------------------------------------------------
\* authenticate up to the call: the static token, a cached answer, or a review.
authenticate(r, t) ==
    /\ req[r].pc = "idle"
    /\ Serve(r, t, IF t = DevToken \/ Fresh(entries[t]) THEN "accepted" ELSE "review")
    /\ UNCHANGED <<now, valid, lastValid, entries, nextTick>>

\* The API server answers.  A refusal, or an error, is not cached.
Review(r) ==
    /\ req[r].pc = "review"
    /\ \/ req[r].tok \in valid /\ Serve(r, req[r].tok, "store")
       \/ req' = [req EXCEPT ![r].pc = "idle"]
    /\ UNCHANGED <<now, valid, lastValid, entries, nextTick>>

\* The answer goes into the cache, with the time of now.
Store(r) ==
    /\ req[r].pc = "store"
    /\ entries' = [entries EXCEPT ![req[r].tok] = [in |-> TRUE, storedAt |-> now]]
    /\ req' = [req EXCEPT ![r].pc = "accepted"]
    /\ UNCHANGED <<now, valid, lastValid, nextTick>>

\* The handler runs and the request is over.
Done(r) ==
    /\ req[r].pc = "accepted"
    /\ req' = [req EXCEPT ![r].pc = "idle"]
    /\ UNCHANGED <<now, valid, lastValid, entries, nextTick>>

\* Mutant of evictLoop: an entry is kept for twice ttl.
evictLoopLate ==
    /\ now = nextTick
    /\ entries' = [t \in Tokens |->
                     IF entries[t].in /\ now - entries[t].storedAt <= 2 * ttl
                     THEN entries[t] ELSE NoEntry]
    /\ nextTick' = now + 2 * ttl
    /\ UNCHANGED <<now, valid, lastValid, req>>

\* One tick of evictLoop.
evictLoop ==
    /\ now = nextTick
    /\ entries' = [t \in Tokens |-> IF Fresh(entries[t]) THEN entries[t] ELSE NoEntry]
    /\ nextTick' = now + 2 * ttl
    /\ UNCHANGED <<now, valid, lastValid, req>>

\* Time passes, but the ticker is served and an answer does not wait for longer
\* than Delay.
Tick ==
    /\ now < MaxTime /\ now < nextTick
    /\ \A r \in Reqs : req[r].pc = "store" => now - req[r].at < Delay
    /\ now' = now + 1
    /\ lastValid' = [t \in Tokens |-> IF t \in valid THEN now' ELSE lastValid[t]]
    /\ UNCHANGED <<valid, entries, nextTick, req>>

\* A token expires or is revoked, or a new one is issued.
Revoke(t) ==
    /\ t \in valid
    /\ valid' = valid \ {t}
    /\ UNCHANGED <<now, lastValid, entries, nextTick, req>>

Issue(t) ==
    /\ t \notin valid
    /\ valid' = valid \cup {t}
    /\ lastValid' = [lastValid EXCEPT ![t] = now]
    /\ UNCHANGED <<now, entries, nextTick, req>>

-----------------------------------------------------------------------------
Init ==
    /\ now = 0
    /\ valid = Tokens /\ lastValid = [t \in Tokens |-> 0]
    /\ entries = [t \in Tokens |-> NoEntry]
    /\ nextTick = 2 * ttl
    /\ req \in [Reqs -> [pc : {"idle"}, tok : Tokens, at : {0}]]

Next ==
    \/ \E r \in Reqs :
         \/ \E t \in Tokens : authenticate(r, t)
         \/ Review(r) \/ Store(r) \/ Done(r)
    \/ evictLoop \/ Tick
    \/ \E t \in Tokens : Revoke(t) \/ Issue(t)

Spec == Init /\ [][Next]_vars

-----------------------------------------------------------------------------
\* Types; the bound on the time applies to the times that are kept.
TypeOK ==
    /\ now \in Times /\ valid \subseteq Tokens
    /\ lastValid \in [Tokens -> Times] /\ entries \in [Tokens -> Entry]
    /\ nextTick \in Nat /\ req \in [Reqs -> Request]

\* A token is accepted only if the API server would have accepted it less than
\* ttl, and the time an answer may take to reach the cache, ago: with reviews
\* of the same token overlapping a revocation in any order.
AcceptsRecent ==
    [][\A r \in Reqs :
         LET t == req'[r].tok IN
         req[r].pc # "accepted" /\ req'[r].pc = "accepted" /\ t # DevToken
            => now - lastValid[t] < ttl + Delay]_vars

\* evictLoop leaves no entry in the cache for three times ttl.
EntriesExpire == \A t \in Tokens : entries[t].in => now - entries[t].storedAt < 3 * ttl

=============================================================================
