----------------------------- MODULE MCLogging -----------------------------
(* Logging with two runs at a time, two threads, and spans of two callsites. *)
EXTENDS Logging, SequencesExt

CONSTANTS r1, r2, t1, t2, c1, c2, s1, s2, safe, unsafe

MCCallsiteOf == (s1 :> c1) @@ (s2 :> c2)

(* Replay is what the loop of sync_filter leaves: span after span, learn    *)
(* it, then enter it.                                                       *)
ASSUME ReplayIsTheLoop ==
  \A cares, reg \in SUBSET Callsites, byId \in SUBSET Spans, t \in Threads :
    \A spans \in SeqOf(Spans, MaxDepth + 2) :
      LET f == [NewFilter(cares) EXCEPT !.byId = byId] IN
        Replay(f, reg, t, spans)
          = FoldLeft(LAMBDA g, s : Push(Learn(g, reg, s), t, s), f, spans)

(* Runs, threads and policies are interchangeable; so are the callsites,    *)
(* each taken together with its span.                                       *)
Swapped == (c1 :> c2) @@ (c2 :> c1) @@ (s1 :> s2) @@ (s2 :> s1)
Symm == Permutations(Runs) \cup Permutations(Threads) \cup Permutations(Modes) \cup {Swapped}
=============================================================================
