---------------------------- MODULE ToolSchemas -----------------------------
(***************************************************************************)
(* The requests the MCP framework lets through to the handlers: the input  *)
(* schemas made from the request types (internal/server/params.go) with    *)
(* the enumerations stamped onto them (output_cache.go).  Each tool has at *)
(* most two fields that choose between ways to go, here choice and option. *)
(***************************************************************************)
EXTENDS ToolHandlers

None == "none"
Other == "other"   \* a string that is no known choice

(* The fields a request must have: those without omitempty.                 *)
SessionRequests ==
    [open_binary |-> {"path"}, close_binary |-> {}, list_sessions |-> {},
     save_database |-> {}, get_session_progress |-> {}, run_auto_analysis |-> {},
     get_disasm |-> {"address"}, read_memory |-> {"address"}]

CompositeRequests ==
    [survey_binary |-> {}, analyze_function |-> {"address"},
     analyze_functions |-> {"addresses"}, set_analysis_note |-> {"address", "note"},
     get_analysis_context |-> {}, prune_context |-> {}, py_eval |-> {"code"},
     annotate_function |-> {"address"}, make_function |-> {"address"}]

DispatchRequests ==
    [query |-> {"category"}, get_references |-> {"address"}, search |-> {"mode"},
     inspect |-> {"address"},
     cross_reference |-> {"source_session_id", "target_session_id", "address"},
     cross_search |-> {"session_ids", "mode"}, set_metadata |-> {"address", "action"},
     set_type |-> {"target"}, import_metadata |-> {"format"}]

Tools == DOMAIN SessionRequests \cup DOMAIN CompositeRequests
             \cup DOMAIN DispatchRequests

Required(tool) ==
    CASE tool \in DOMAIN SessionRequests   -> SessionRequests[tool]
      [] tool \in DOMAIN CompositeRequests -> CompositeRequests[tool]
      [] tool \in DOMAIN DispatchRequests  -> DispatchRequests[tool]

(* The fields that choose.                                                  *)
Chooser ==
    [query |-> "category", get_references |-> "mode", search |-> "mode",
     read_memory |-> "format", set_metadata |-> "action", set_type |-> "target",
     import_metadata |-> "format", cross_search |-> "mode",
     set_analysis_note |-> "note", py_eval |-> "read_only"]

Optioner == [get_references |-> "direction", set_metadata |-> "scope"]

toolEnums ==
    [query           |-> [category |-> {"functions", "imports", "exports", "strings",
                                        "globals", "segments", "structs", "enums",
                                        "entry_point"}],
     get_references  |-> [mode |-> {"code", "data", "string"},
                          direction |-> {"to", "from", "both"}],
     search          |-> [mode |-> {"text", "binary"}],
     read_memory     |-> [format |-> {"bytes", "dword", "qword", "byte", "string"}],
     set_metadata    |-> [action |-> {"set_name", "delete_name", "set_comment"},
                          scope |-> {"address", "function", "decompiler"}],
     set_type        |-> [target |-> {"function", "global", "lvar"}],
     import_metadata |-> [format |-> {"il2cpp", "flutter"}]]

(* The strings a field of a tool can hold when the request gets through:    *)
(* those of the enumeration if it has one, any otherwise, and the empty one *)
(* if the field may be omitted.                                             *)
applyEnumConstraints(tool, field) ==
    (IF tool \in DOMAIN toolEnums /\ field \in DOMAIN toolEnums[tool]
     THEN toolEnums[tool][field]
     ELSE CrossModes \cup {Other, ""})
    \cup (IF field \in Required(tool) THEN {} ELSE {""})

Choices(tool) == IF tool \in DOMAIN Chooser
                 THEN applyEnumConstraints(tool, Chooser[tool]) ELSE {None}
Options(tool) == IF tool \in DOMAIN Optioner
                 THEN applyEnumConstraints(tool, Optioner[tool]) ELSE {None}

-----------------------------------------------------------------------------
(* The handler each tool is registered with.                                *)
Script(tool, choice, option) ==
    CASE tool = "open_binary"          -> openBinary
      [] tool = "close_binary"         -> closeBinary
      [] tool = "list_sessions"        -> listSessions
      [] tool = "save_database"        -> saveDatabase
      [] tool = "get_session_progress" -> getSessionProgress
      [] tool = "run_auto_analysis"    -> runAutoAnalysis
      [] tool = "get_disasm"           -> getDisasm
      [] tool = "read_memory"          -> readMemory(choice)
      [] tool = "survey_binary"        -> surveyBinary
      [] tool = "analyze_function"     -> analyzeFunction
      [] tool = "analyze_functions"    -> analyzeFunctions
      [] tool = "set_analysis_note"    -> setAnalysisNote(choice # "")
      [] tool = "get_analysis_context" -> getAnalysisContext
      [] tool = "prune_context"        -> pruneContext
      [] tool = "py_eval"              -> pyEval(choice # "")
      [] tool = "annotate_function"    -> annotateFunction
      [] tool = "make_function"        -> makeFunction
      [] tool = "query"                -> query(choice)
      [] tool = "get_references"       -> getReferences(choice, option)
      [] tool = "search"               -> search(choice)
      [] tool = "inspect"              -> inspect
      [] tool = "cross_reference"      -> crossReference
      [] tool = "cross_search"         -> crossSearch(choice)
      [] tool = "set_metadata"         -> setMetadata(choice, option)
      [] tool = "set_type"             -> setType(choice)
      [] tool = "import_metadata"      -> importMetadata(choice)

(* The scripts a request to a tool can start.                               *)
ScriptsOf ==
    [tool \in Tools |->
        {Script(tool, choice, option) : choice \in Choices(tool), option \in Options(tool)}]
=============================================================================
