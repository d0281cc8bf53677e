------------------------------ MODULE RateLimiter ------------------------------
(***************************************************************************)
(* isRateLimited (src/proxy.ts): a fixed window per address, in a Map of   *)
(* bounded size that is kept in the memory of the process.  windows is     *)
(* that Map in its iteration order, which is the order of first insertion: *)
(* an entry that is set again keeps its place.                             *)
(***************************************************************************)
EXTENDS Integers, Sequences, FiniteSets, SequencesExt, Sublists

CONSTANTS
  Ip,            \* the addresses requests come from
  Limit,         \* requests of one address that pass in one window
  Window,        \* length of a window
  MaxEntries,    \* what the Map may hold
  MaxTime,       \* bound: how far the clock goes
  MaxRequests    \* bound: requests ever made

ASSUME LimitAssumption == Limit \in Nat \ {0} /\ MaxEntries \in Nat \ {0}
ASSUME WindowAssumption == Window \in Nat

VARIABLES
  now,         \* Date.now()
  windows,     \* rateLimitMap
  log,         \* history: every request to /api/auth/, in order
  forgotten    \* history: addresses whose window was dropped while it ran

limiterVars == <<now, windows, log, forgotten>>

LimiterInit ==
  /\ now = 0
  /\ windows = <<>>
  /\ log = <<>>
  /\ forgotten = {}

Running(w) == now <= w.resetTime

At(entries, ip) == SelectInSeq(entries, LAMBDA w : w.ip = ip)

(***************************************************************************)
(* A new address meets a full Map: the expired entries go first, and if    *)
(* none has expired the first one goes, running as it is.                  *)
(***************************************************************************)
MakeRoom(ip) ==
  IF Len(windows) < MaxEntries \/ At(windows, ip) # 0 THEN windows
  ELSE LET live == Sublist(windows, {k \in DOMAIN windows : Running(windows[k])})
       IN  IF Len(live) >= MaxEntries THEN Tail(live) ELSE live

(***************************************************************************)
(* The entry of a request's address afterwards.                            *)
(***************************************************************************)
(* Faulty variant: a request that is refused starts a new window.          *)
EntryEarly(entries, ip) ==
  LET i == At(entries, ip) IN
  IF i = 0 \/ entries[i].count >= Limit
  THEN [ip |-> ip, count |-> 1, resetTime |-> now + Window]
  ELSE [entries[i] EXCEPT !.count = @ + 1]

Entry(entries, ip) ==
  LET i == At(entries, ip) IN
  IF i = 0 \/ ~Running(entries[i])
  THEN [ip |-> ip, count |-> 1, resetTime |-> now + Window]
  ELSE [entries[i] EXCEPT !.count = @ + 1]

Limited(ip) == Entry(MakeRoom(ip), ip).count > Limit

(***************************************************************************)
(* proxy: a request to /api/auth/ passes, or is answered 429; the first    *)
(* one refused in a window is reported as a security event.                *)
(***************************************************************************)
Knock(ip) ==
  LET entries == MakeRoom(ip)
      entry   == Entry(entries, ip)
      i       == At(entries, ip)
  IN  /\ Len(log) < MaxRequests
      /\ windows' = IF i = 0 THEN Append(entries, entry)
                             ELSE [entries EXCEPT ![i] = entry]
      /\ log' = Append(log, [ip |-> ip, time |-> now, passed |-> ~Limited(ip),
                             event |-> entry.count = Limit + 1])
      /\ forgotten' = forgotten \cup
           {windows[k].ip : k \in {j \in DOMAIN windows :
              Running(windows[j]) /\ At(entries, windows[j].ip) = 0}}
      /\ UNCHANGED now

(* The process restarts, with an empty Map.                                *)
RestartProxy ==
  /\ windows # <<>>
  /\ windows' = <<>>
  /\ forgotten' = forgotten \cup {windows[k].ip : k \in DOMAIN windows}
  /\ UNCHANGED <<now, log>>

Tick ==
  /\ now < MaxTime
  /\ now' = now + 1
  /\ UNCHANGED <<windows, log, forgotten>>

--------------------------------------------------------------------------------
(* Requests of the n-th request's address in the window that ends with it. *)
Recent(n) ==
  {m \in 1 .. n - 1 : log[m].ip = log[n].ip /\ log[m].time >= log[n].time - Window}

(***************************************************************************)
(* What a fixed window promises: however the windows fall, no more than    *)
(* twice Limit requests of an address pass within any time of one Window,  *)
(* unless its entry was dropped while it ran.  And the Map stays bounded.  *)
(***************************************************************************)
NeverTwiceTheLimit ==
  /\ Len(windows) <= MaxEntries
  /\ \A n \in DOMAIN log :
       log[n].passed /\ log[n].ip \notin forgotten =>
         Cardinality({m \in Recent(n) : log[m].passed}) < 2 * Limit
================================================================================
