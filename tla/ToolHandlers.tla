---------------------------- MODULE ToolHandlers ----------------------------
(***************************************************************************)
(* The handlers of the tools, as scripts.  A handler runs its script from  *)
(* left to right and ends at the first step that fails; ToolCalls says     *)
(* what a step does.  (internal/server/dispatch.go, read.go, types.go,     *)
(* search.go, cross.go, composite.go, write.go, il2cpp.go, flutter.go,     *)
(* session.go.)                                                            *)
(*                                                                         *)
(* What is kept of a handler is which argument it tests when, how it       *)
(* resolves its session, which calls it makes to the worker, alone or side *)
(* by side, what it does about one that fails, and what it changes in the  *)
(* server.  What the replies say is left out.                              *)
(***************************************************************************)
EXTENDS Sequences, FiniteSets, Naturals

(* The steps.  Check: an argument that is missing or malformed is refused.  *)
(* Invalid: the fallback for a choice the handler does not know.            *)
Check(arg)   == [op |-> "check", arg |-> arg]
Invalid      == [op |-> "invalid"]

(* Resolve: find the session in the registry ("session"), and its worker    *)
(* ("load"), and test that it is ready ("gate"), or wait for it ("wait").   *)
(* at says which of the sessions of the call.  An attempt that fails is     *)
(* reported in the reply and the session left out.                          *)
Resolve(how)     == [op |-> "resolve", how |-> how, at |-> 1]
ResolveAt(i)     == [op |-> "resolve", how |-> "wait", at |-> i]
AttemptAt(i)     == [op |-> "attempt", how |-> "wait", at |-> i]

(* Ask: calls to the worker side by side, all of them awaited.  A call that *)
(* fails ends the handler ("must"), is named in the reply ("told"), or      *)
(* leaves a hole ("silent").  A held result may come from the session cache *)
(* without a call.                                                          *)
Part(rpc, on)     == [rpc |-> rpc, on |-> on, held |-> FALSE, writes |-> FALSE]
HeldPart(rpc, on) == [rpc |-> rpc, on |-> on, held |-> TRUE, writes |-> FALSE]
AskAt(i, parts)   == [op |-> "ask", parts |-> parts, at |-> i]
Ask(parts)        == AskAt(1, parts)
Must(rpc)         == Ask({Part(rpc, "must")})
Load(rpc)         == Ask({HeldPart(rpc, "must")})
Silent(rpc)       == Ask({Part(rpc, "silent")})
(* parallelMap: what fails is told in its place of the reply.               *)
parallelMap(results) == Ask({HeldPart(r, "told") : r \in results})
Write(rpc)        ==
    Ask({[rpc |-> rpc, on |-> "must", held |-> FALSE, writes |-> TRUE]})

(* The others, which touch the server alone.  "cache" is getSessionCache:   *)
(* the handler keeps the pointer it gets.                                   *)
Step(op) == [op |-> op]

-----------------------------------------------------------------------------
(* read.go *)
getDisasm == <<Resolve("wait"), Check("address"), Must("GetDisasm")>>

(* The filter and the page are tested after the list has been loaded.       *)
compileRegex == Check("regex")
List(rpc) == <<Resolve("wait"), Step("cache"), Load(rpc), compileRegex, Check("page")>>

getFunctions == List("GetFunctions")
getImports   == List("GetImports")
getExports   == List("GetExports")
getStrings   == List("GetStrings")

(* Both directions are asked for side by side, and the first failure ends   *)
(* the handler while the other call is still out.                           *)
XRefs == {HeldPart("GetXRefsTo", "must"), HeldPart("GetXRefsFrom", "must")}

(* A faulty variant: one direction's failure is passed over.                *)
getXRefsQuiet(direction) ==
    <<Resolve("wait"), Step("cache"),
      CASE direction = "to"   -> Must("GetXRefsTo")
        [] direction = "from" -> Must("GetXRefsFrom")
        [] OTHER -> Ask({[p EXCEPT !.on = "silent"] : p \in XRefs})>>

getXRefs(direction) ==
    <<Resolve("wait"), Step("cache"),
      CASE direction = "to"   -> Must("GetXRefsTo")
        [] direction = "from" -> Must("GetXRefsFrom")
        [] OTHER -> [op |-> "race", parts |-> XRefs, at |-> 1]>>

getDataRefs    == <<Resolve("wait"), Must("GetDataRefs")>>
getStringXRefs == <<Resolve("wait"), Must("GetStringXRefs")>>
getSegments    == <<Resolve("wait"), Step("cache"), Load("GetSegments")>>
getEntryPoint  == <<Resolve("wait"), Must("GetEntryPoint")>>

readMemory(format) ==
    <<Resolve("wait"), Check("address"),
      CASE format \in {"", "bytes"} -> Must("GetBytes")
        [] format = "dword"         -> Must("GetDwordAt")
        [] format = "qword"         -> Must("GetQwordAt")
        [] format = "byte"          -> Must("DataReadByte")
        [] format = "string"        -> Must("DataReadString")
        [] OTHER                    -> Invalid>>

(* types.go and search.go *)
getGlobals == <<Resolve("wait"), Must("GetGlobals")>>
getStructs == <<Resolve("wait"), Must("GetStructs")>>
getEnums   == <<Resolve("wait"), Must("GetEnums")>>
findBinary == <<Check("pattern"), Resolve("wait"), Must("FindBinary")>>
findText   == <<Check("needle"), Resolve("wait"), Must("FindText")>>

-----------------------------------------------------------------------------
(* write.go, il2cpp.go and flutter.go *)

(* A faulty variant: the function is tested after the write.                *)
setCommentLate(scope) ==
    <<Check("comment"), Resolve("wait"), Write("SetComment"), Check("function")>>

setComment(scope) ==
    <<Check("comment"), Resolve("wait")>>
    \o CASE scope = "function"   -> <<Write("SetFuncComment")>>
         [] scope = "decompiler" -> <<Check("function"), Write("SetDecompilerComment"),
                                     Step("cache")>>
         [] OTHER                -> <<Write("SetComment")>>

setName         == <<Resolve("wait"), Silent("GetName"), Write("SetName"),
                     Step("cache")>>
deleteName      == <<Resolve("wait"), Silent("GetName"), Write("DeleteName"),
                     Step("cache")>>
setLvarType     == <<Check("type"), Check("function_address"), Resolve("wait"),
                     Write("SetLvarType"), Step("cache")>>
setGlobalType   == <<Check("type"), Resolve("wait"), Silent("GetName"),
                     Write("SetGlobalType"), Step("cacheIfNamed")>>
setFunctionType == <<Check("prototype"), Resolve("wait"), Silent("GetName"),
                     Write("SetFunctionType"), Step("cache")>>
makeFunction    == <<Resolve("wait"), Check("address"), Write("MakeFunction"),
                     Step("cache")>>

importIl2cpp  == <<Check("script_path"), Check("il2cpp_path"), Resolve("wait"),
                   Write("ImportIl2cpp")>>
importFlutter == <<Check("meta_json_path"), Resolve("wait"), Write("ImportFlutter")>>

-----------------------------------------------------------------------------
(* composite.go *)
Surveyed ==
    {HeldPart(r, "told") : r \in {"GetSegments", "GetFunctions", "GetImports",
                                  "GetExports"}}
    \cup {Part(r, "told") : r \in {"GetStrings", "GetEntryPoint", "GetSessionInfo"}}

surveyBinary == <<Resolve("wait"), Step("cache"), Ask(Surveyed), Step("promote")>>

(* The failure of the pseudocode or of the references is told, that of the  *)
(* metadata or the comment is not.                                          *)
analyzeSingleFunction ==
    <<Step("cache"),
      Ask({HeldPart("GetDecompiled", "told"), HeldPart("GetXRefs", "told"),
           Part("GetFunctionInfo", "silent"), Part("GetFuncComment", "silent")}),
      Step("visit")>>

analyzeFunction ==
    <<Resolve("wait"), Check("address")>> \o analyzeSingleFunction
        \o <<Step("promote")>>

(* The functions of a batch side by side (two of them here), each in its    *)
(* place of the reply, with what went wrong with it or with its address.    *)
(* Each takes the session cache for itself, and they may get different ones.*)
analyzeFunctions ==
    <<Check("addresses"), Resolve("wait"), Step("cache"),
      parallelMap({"first", "second"}), Step("visit"), Step("cache"), Step("visit")>>

annotateFunction ==
    <<Resolve("wait"), Check("address"), Check("comment_address"),
      Write("batch_annotate"), Step("cache")>>

(* An empty note leaves a visit.                                            *)
setAnalysisNote(note) ==
    <<Resolve("session"), Check("address"), Step("cache"), [op |-> "note", note |-> note]>>

getAnalysisContext == <<Resolve("session"), Step("cache")>>
pruneContext       == <<Resolve("session"), Step("clear"), Step("cache")>>

pyEval(readOnly) ==
    <<Resolve("wait"), Write("py_eval")>> \o (IF readOnly THEN <<>> ELSE <<Step("cache")>>)

(* cross.go.  An empty name is asked for again as a function's, and without *)
(* a name there is nothing to look for.                                     *)
crossReference ==
    <<ResolveAt(1), ResolveAt(2), Check("address"), Must("GetName"), Step("named"),
      AskAt(2, {Part("GetImports", "silent")}), AskAt(2, {Part("GetExports", "silent")}),
      AskAt(2, {Part("GetFunctions", "silent")}), AskAt(2, {Part("GetStrings", "silent")})>>

CrossModes == {"functions", "imports", "exports", "strings"}

(* The sessions are searched one after the other; the mode is looked at     *)
(* when the first of them has been resolved.                                *)
crossSearchOne(i, mode) ==
    <<AttemptAt(i), IF mode \in CrossModes THEN AskAt(i, {Part(mode, "silent")})
                                           ELSE Invalid>>

crossSearch(mode) ==
    <<IF mode = "" THEN Step("refuse") ELSE Step("sessions"),
      compileRegex, [op |-> "search", mode |-> mode]>>

(* session.go *)
saveDatabase       == <<Resolve("gate"), Must("SaveDatabase")>>
getSessionProgress == <<Resolve("session"), Silent("GetSessionInfo")>>
listSessions       == <<>>

(* Lifecycle and Readiness have the details of these three.  open_binary    *)
(* ends with the worker's status, if it is to be had.                       *)
enrichSessionResult == Silent("GetSessionInfo")
reuseSession        == <<enrichSessionResult, Step("promote1")>>
openBinary      == <<Check("path"), Step("create"), Step("start"), Step("promote1"),
                     enrichSessionResult>>
closeBinary     == <<Resolve("session"), Step("stop"), Step("delete"), Step("uncache"),
                     Step("list"), Step("demote")>>
runAutoAnalysis == <<Resolve("load"), Step("analyze")>>

-----------------------------------------------------------------------------
(* dispatch.go.  choice is the discriminator of the request, option its     *)
(* second choice; "" is an omitted field.                                   *)
query(category) ==
    CASE category = "functions"   -> getFunctions
      [] category = "imports"     -> getImports
      [] category = "exports"     -> getExports
      [] category = "strings"     -> getStrings
      [] category = "globals"     -> getGlobals
      [] category = "segments"    -> getSegments
      [] category = "structs"     -> getStructs
      [] category = "enums"       -> getEnums
      [] category = "entry_point" -> getEntryPoint
      [] OTHER                    -> <<Invalid>>

(* A faulty variant: an omitted mode has no meaning.                        *)
getReferencesStrict(mode, direction) ==
    <<Check("address")>>
    \o CASE mode = "code"   -> IF direction \in {"", "to", "from", "both"}
                               THEN getXRefs(direction) ELSE <<Invalid>>
         [] mode = "data"   -> getDataRefs
         [] mode = "string" -> getStringXRefs
         [] OTHER           -> <<Invalid>>

getReferences(mode, direction) ==
    <<Check("address")>>
    \o CASE mode \in {"", "code"} -> IF direction \in {"", "to", "from", "both"}
                                     THEN getXRefs(direction) ELSE <<Invalid>>
         [] mode = "data"   -> IF direction = "" THEN getDataRefs
                                                 ELSE <<Step("refuse")>>
         [] mode = "string" -> IF direction = "" THEN getStringXRefs
                                                 ELSE <<Step("refuse")>>
         [] OTHER           -> <<Invalid>>

search(mode) ==
    <<Check("start"), Check("end")>>
    \o CASE mode = "text"   -> findText
         [] mode = "binary" -> findBinary
         [] OTHER           -> <<Invalid>>

Inspected == {"GetName", "GetTypeAt", "GetComment", "GetFunctionInfo",
              "GetInstructionLength"}

inspect ==
    <<Resolve("wait"), Check("address"), Ask({Part(r, "told") : r \in Inspected}),
      Step("some")>>

setMetadata(action, scope) ==
    <<Check("address")>>
    \o CASE action = "set_name"    -> <<Check("name")>> \o setName
         [] action = "delete_name" -> deleteName
         [] action = "set_comment" -> <<Check("function_address")>> \o setComment(scope)
         [] OTHER                  -> <<Invalid>>

setType(target) ==
    CASE target = "function" -> <<Check("address"), Check("prototype")>> \o setFunctionType
      [] target = "global"   -> <<Check("address"), Check("type")>> \o setGlobalType
      [] target = "lvar"     -> <<Check("function_address"), Check("lvar_name"),
                                  Check("type")>> \o setLvarType
      [] OTHER               -> <<Invalid>>

importMetadata(format) ==
    CASE format = "il2cpp"  -> importIl2cpp
      [] format = "flutter" -> importFlutter
      [] OTHER              -> <<Invalid>>
=============================================================================
