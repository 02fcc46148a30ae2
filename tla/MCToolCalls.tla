---------------------------- MODULE MCToolCalls -----------------------------
(* TLC instance of ToolCalls.  One caller makes the calls of the session    *)
(* tools, the other all the others.                                         *)
EXTENDS ToolCalls

CONSTANTS s1, s2, c1, c2

MCSessions == <<s1, s2>>
SessionTools == {"open_binary", "close_binary", "run_auto_analysis"}
CrossTools == {"cross_reference", "cross_search"}
MCToolsOf == [c \in Callers |-> IF c = c1 THEN Tools \ SessionTools ELSE SessionTools]
MCLimits == {0, 1, 3, MaxInt}
MCOffsets == {-1, 2, MaxInt}

(* A reply reaches its client before anything else happens: nothing else    *)
(* looks at it.                                                             *)
RepliesFirst ==
    \A c \in Callers : call[c].state = "returned" => call'[c] # call[c]

(* The bounds.  The calls that leave something in the server (Lasting) meet *)
(* a session that is closed or analysed meanwhile (Disturbed); all calls    *)
(* meet one that is loading, ready or failed and whose worker may die, and  *)
(* find no notes (Plain).  The second session is there for the calls that   *)
(* need two, and stays well; the first one is closed last.  Long replies    *)
(* are stored, read and pruned with one settled session.                    *)
Lasting == {"set_analysis_note", "analyze_function", "survey_binary"}
Storing == outputVars # <<<<[id \in Ids |-> Nil], <<>>, 0, <<>>>>, 0, Idle>>
Settled ==
    /\ registry = {s1} /\ opened = {s1} /\ workers = {s1} /\ ~Busy(c2) /\ tier = 1
    /\ stage[s1] = "ready" /\ jobs[s1] = {} /\ notes[s1] \in {"absent", "empty"}
    /\ Busy(c1) => call[c1].tool \in {"list_sessions", "prune_context"}
    /\ orphans = {}

Plain ==
    /\ ~Busy(c2) /\ outlived = {}
    /\ \A s \in SessionSet : notes[s] \in {"absent", "empty"} /\ "pass" \notin jobs[s]

Disturbed ==
    /\ call[c1].tool \in Lasting /\ call[c1].ids # <<Omitted>>
    /\ call[c1].tool = "survey_binary" => jobs[s1] = {} /\ call[c1].asked = {}
    /\ call[c1].failed = {}
    /\ s1 \in workers \/ s1 \notin registry \/ Closing(s1)

Bounded ==
    /\ Busy(c1) => Plain \/ Disturbed
    /\ Busy(c1) /\ s1 \in opened \ registry => call[c1].found[1] = s1
    /\ Busy(c1) /\ call[c1].tool \notin CrossTools => call[c1].ids # <<s2>>
    /\ "pass" \in jobs[s1] => jobs[s1] = {"pass"}
    /\ orphans # {} => ~Busy(c1) /\ Plain
    /\ s2 \in opened =>
          /\ s1 \in registry /\ jobs[s1] = {} /\ jobs[s2] \subseteq {"load"}
          /\ stage[s2] # "failed" /\ (s2 \in workers \/ Busy(c2) \/ s2 \notin registry)
          /\ Busy(c1) => call[c1].tool \in CrossTools \cup {"inspect"}
    /\ Storing => Settled
=============================================================================
