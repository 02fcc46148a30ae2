----------------------------- MODULE ToolTiers ------------------------------
(***************************************************************************)
(* The tools a client is offered.  They come in three tiers, registered as *)
(* the work advances and removed when the last session closes.             *)
(* (internal/server/server.go.)  The tier mutex makes every change one     *)
(* step.                                                                   *)
(***************************************************************************)
EXTENDS Naturals

CONSTANT enablePyEval   \* the operator's switch for py_eval

ASSUME TiersAssumption == enablePyEval \in BOOLEAN

VARIABLES
    tier,        \* the tier, 0..2
    registered   \* the tools the MCP server offers

tierVars == <<tier, registered>>

pyEvalIfEnabled == IF enablePyEval THEN {"py_eval"} ELSE {}

(* The names to remove on demotion.                                         *)
tier1ToolNames ==
    {"close_binary", "save_database", "survey_binary", "analyze_function",
     "analyze_functions", "set_analysis_note", "get_analysis_context",
     "prune_context", "read_memory", "get_disasm", "query", "get_references",
     "search", "inspect", "cross_reference", "cross_search",
     "run_auto_analysis", "watch_auto_analysis", "get_session_progress"}

(* A faulty variant: py_eval is forgotten.                                  *)
tier1ToolsFixed == tier1ToolNames
tier1Tools == tier1ToolNames \cup pyEvalIfEnabled

tier2ToolNames ==
    {"annotate_function", "set_metadata", "set_type", "make_function",
     "import_metadata"}

(* What each tier registers.                                                *)
registerTier0 == {"open_binary", "list_sessions", "get_cached_output"}

registerTier1 ==
    {"close_binary", "save_database"}
    \cup {"survey_binary", "analyze_function", "analyze_functions"}
    \cup {"set_analysis_note", "get_analysis_context", "prune_context"}
    \cup {"read_memory", "get_disasm", "query", "get_references", "search",
          "inspect"}
    \cup {"cross_reference", "cross_search"}
    \cup {"run_auto_analysis", "watch_auto_analysis", "get_session_progress"}
    \cup pyEvalIfEnabled

registerTier2 ==
    {"annotate_function", "set_metadata", "set_type", "make_function",
     "import_metadata"}

(* RegisterTools, at the start of the server.                               *)
RegisterTools == tier = 0 /\ registered = registerTier0

promoteToTier(target) ==
    /\ tier' = IF tier >= target THEN tier ELSE target
    /\ registered' = registered
           \cup (IF target >= 1 /\ tier < 1 THEN registerTier1 ELSE {})
           \cup (IF target >= 2 /\ tier < 2 THEN registerTier2 ELSE {})

demoteToTier0 ==
    /\ tier' = 0
    /\ registered' = registered
           \ ((IF tier >= 2 THEN tier2ToolNames ELSE {})
                \cup (IF tier >= 1 THEN tier1Tools ELSE {}))

-----------------------------------------------------------------------------
(* The client is offered exactly the tools of the tier: what a demotion     *)
(* removes is what the promotions before it registered (server.go:193-435). *)
TierTools ==
    registered = registerTier0
        \cup (IF tier >= 1 THEN registerTier1 ELSE {})
        \cup (IF tier >= 2 THEN registerTier2 ELSE {})
=============================================================================
