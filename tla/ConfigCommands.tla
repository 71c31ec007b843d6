--------------------------- MODULE ConfigCommands ---------------------------
(***************************************************************************)
(* The configuration commands of the C, C++ and Rust interfaces            *)
(* (src/src/ipc/client/get_config.c, update_config.c,                      *)
(* src/cpp/src/ipc/get_config.cpp, src/rust/src/ipc.rs), with the          *)
(* component commands that only send and wait.  The server is external: it *)
(* keeps a tree of maps, and answers a request for a value that is not a   *)
(* map with a map that holds it under the last key of the path.            *)
(***************************************************************************)
EXTENDS ObjectValues

CONSTANTS
  MaxKeys,       \* GG_MAX_OBJECT_DEPTH - 1
  ConfigPaths,   \* key paths
  ConfigValues,  \* objects that are stored
  ResultSizes,   \* memory for the result: of the caller, or of the heap
  MaxChanges     \* bound: changes of the configuration

ASSUME MaxKeysAssumption == MaxKeys \in Nat \ {0}

VARIABLES
  config,     \* the server's configuration: the pairs of the root map
  command,    \* the command of the component that is under way
  changes     \* counts changes of the configuration, for the bound

configVars == <<config, command, changes>>

Untouched == [t |-> "untouched"]     \* a result variable that was not written

NoCommand == [pc |-> "idle"]

ConfigInit ==
  /\ config = <<>>
  /\ command = NoCommand
  /\ changes = 0

-----------------------------------------------------------------------------
\* The server (external).
RECURSIVE Merge(_, _)
Merge(old, new) ==                   \* pairs of two maps
  LET Put(pairs, p) ==
        LET i == gg_map_get(pairs, p.key.data)
            both == i # 0 /\ p.val.t = "map" /\ pairs[i].val.t = "map"
        IN IF i = 0 THEN Append(pairs, p)
           ELSE IF both THEN [pairs EXCEPT ![i].val.pairs = Merge(@, p.val.pairs)]
           ELSE [pairs EXCEPT ![i].val = p.val]
  IN FoldLeft(Put, old, new)

RECURSIVE Nest(_, _)                 \* a map as it lies under a path
Nest(path, pairs) ==
  IF path = <<>> THEN pairs
  ELSE <<gg_kv("out", Head(path), gg_obj_map("out", Nest(Tail(path), pairs)))>>

RECURSIVE Stored(_, _)               \* the value under a path, in a set
Stored(pairs, path) ==
  IF path = <<>> THEN {gg_obj_map("out", pairs)}
  ELSE LET i == gg_map_get(pairs, Head(path))
       IN IF i = 0 THEN {}
          ELSE IF Len(path) = 1 THEN {pairs[i].val}
          ELSE IF pairs[i].val.t = "map" THEN Stored(pairs[i].val.pairs, Tail(path))
          ELSE {}

Answered(pairs) == [ok |-> TRUE, pairs |-> pairs]

Refusal(code) == [ok |-> FALSE, code |-> code]

GetAnswer(path) ==
  LET found == Stored(config, path)
      v == CHOOSE v \in found : TRUE
  IN IF found = {} THEN Refusal("ResourceNotFoundError")
     ELSE Answered(<<gg_kv("out", "value",
            IF v.t = "map" THEN v
            ELSE gg_obj_map("out", <<gg_kv("out", Last(path), v)>>))>>)

\* Answers that do not have the form the client expects.
BadAnswers == {Answered(<<>>), Answered(<<gg_kv("out", "value", gg_obj_i64(0))>>)}

Codes == {"ServiceError", "UnauthorizedError"}

-----------------------------------------------------------------------------
\* The C client.
FinalKey(path) == IF path = <<>> THEN {} ELSE {Last(path)}

Result(err, out) == [err |-> err, out |-> out]

\* Mutant: a map with one entry is always unwrapped.
get_resp_value_AnyKey(resp, final_key) ==
  LET v == resp[gg_map_get(resp, "value")].val
  IN IF gg_map_validate(resp, <<[key |-> "value", required |-> "required", type |-> "map"]>>) # "OK"
       THEN Result("INVALID", GG_OBJ_NULL)
     ELSE IF Len(v.pairs) = 1 THEN Result("OK", v.pairs[1].val)
     ELSE Result("OK", v)

get_resp_value(resp, final_key) ==
  LET v == resp[gg_map_get(resp, "value")].val
  IN IF gg_map_validate(resp, <<[key |-> "value", required |-> "required", type |-> "map"]>>) # "OK"
       THEN Result("INVALID", GG_OBJ_NULL)
     ELSE IF /\ Len(v.pairs) = 1
             /\ v.pairs[1].key.data \in final_key
             /\ v.pairs[1].val.t # "map"
       THEN Result("OK", v.pairs[1].val)
       ELSE Result("OK", v)

error_handler(code) == IF code = "ResourceNotFoundError" THEN "NOENTRY" ELSE "FAILURE"

\* gg_arena_claim_obj succeeds if the memory suffices (see ClaimIsComplete).
copy_config_obj(resp, final_key, mem) ==
  LET r == get_resp_value(resp, final_key)
  IN IF r.err # "OK" THEN Result("INVALID", GG_OBJ_NULL)
     ELSE IF MemUsage(r.out) > mem THEN Result("NOMEM", GG_OBJ_NULL)
     ELSE r

copy_config_buf(resp, final_key, mem) ==
  LET r == get_resp_value(resp, final_key)
  IN IF r.err # "OK" THEN Result("INVALID", gg_obj_buf("in", <<>>))
     ELSE IF r.out.t # "buf" THEN Result("FAILURE", gg_obj_buf("in", <<>>))
     ELSE IF Len(r.out.data) > mem THEN Result("NOMEM", gg_obj_buf("in", <<>>))
     ELSE r

ggipc_get_config_common(path) == IF Len(path) > MaxKeys THEN "NOMEM" ELSE "OK"

\* What is sent for a value: one that is not a map becomes a map under the rest
\* of the path.
ggipc_update_config(path, time, value) ==
  LET wrap == value.t # "map"
      keys == IF wrap THEN Front(path) ELSE path
      pairs == IF wrap THEN <<gg_kv("out", Last(path), value)>> ELSE value.pairs
  IN IF time = "negative" THEN [err |-> "UNSUPPORTED"]
     ELSE IF wrap /\ path = <<>> THEN [err |-> "INVALID"]
     ELSE IF Len(keys) > MaxKeys THEN [err |-> "NOMEM"]
     ELSE [err |-> "OK", keys |-> keys, pairs |-> pairs]

-----------------------------------------------------------------------------
\* The C++ client.  It has room for one key more.
get_config_common(path) == IF Len(path) > MaxKeys + 1 THEN "NOMEM" ELSE "OK"

cpp_get_resp_value(resp, final_key) == get_resp_value(resp, final_key)

get_config_str_callback(resp, final_key, mem) ==
  LET r == cpp_get_resp_value(resp, final_key)
  IN IF r.err # "OK" THEN Result(r.err, Untouched)
     ELSE IF r.out.t # "buf" THEN Result("PARSE", Untouched)
     ELSE IF Len(r.out.data) > mem THEN Result("NOMEM", Untouched)
     ELSE r

\* expected: the types that the caller accepts.
get_config_obj_callback(resp, final_key, mem, expected) ==
  LET r == cpp_get_resp_value(resp, final_key)
  IN IF r.err # "OK" THEN Result(r.err, Untouched)
     ELSE IF r.out.t \notin expected THEN Result("PARSE", Untouched)
     ELSE IF MemUsage(r.out) > mem THEN Result("NOMEM", Untouched)
     ELSE r

cpp_update_config(time) == time # "none"     \* it always passes a time

-----------------------------------------------------------------------------
\* The Rust client refuses a long path itself.
key_path_to_buf_list(path) == IF Len(path) > MaxKeys THEN "RANGE" ELSE "OK"

rust_get_config(resp, final_key, mem) ==
  LET r == copy_config_obj(resp, final_key, mem)
  IN IF r.err = "OK" THEN r ELSE Result(r.err, Untouched)

rust_get_config_str(resp, final_key, mem) ==
  LET r == copy_config_buf(resp, final_key, mem)
  IN IF r.err = "OK" THEN r ELSE Result(r.err, Untouched)

-----------------------------------------------------------------------------
\* Commands: a call sends a request or fails, the server answers, the answer is
\* handled on the thread that receives, and the call returns.
GetApis == {"c", "c_str", "cpp", "cpp_i64", "cpp_str", "rust", "rust_str"}

AnyType == {"null", "bool", "i64", "f64", "buf", "list", "map"}

\* What a result variable holds until there is a result, and after an error.
OnError(api) ==
  CASE api = "c" -> GG_OBJ_NULL
    [] api = "c_str" -> gg_obj_buf("in", <<>>)
    [] OTHER -> Untouched

GetPathError(api, path) ==
  CASE api \in {"c", "c_str"} -> ggipc_get_config_common(path)
    [] api \in {"rust", "rust_str"} -> key_path_to_buf_list(path)
    [] OTHER -> get_config_common(path)

GetConfig(api, path, mem) ==
  LET err == GetPathError(api, path)
  IN /\ command = NoCommand
     /\ command' = [pc |-> IF err = "OK" THEN "sent" ELSE "done", op |-> "get", api |-> api,
                    path |-> path, mem |-> mem, ret |-> err, out |-> OnError(api)]
     /\ UNCHANGED <<config, changes>>

UpdateConfig(api, path, time, value) ==
  LET u == ggipc_update_config(path, time, value)
      err == IF api = "rust" /\ key_path_to_buf_list(path) # "OK"
               THEN key_path_to_buf_list(path) ELSE u.err
  IN /\ command = NoCommand
     /\ changes < MaxChanges
     /\ api = "cpp" => cpp_update_config(time)
     /\ command' = [pc |-> IF err = "OK" THEN "sent" ELSE "done", op |-> "update", api |-> api,
                    path |-> path, value |-> value, time |-> time, ret |-> err]
     /\ UNCHANGED <<config, changes>>

ggipc_restart_component ==
  /\ command = NoCommand
  /\ command' = [pc |-> "sent", op |-> "restart", ret |-> "OK"]
  /\ UNCHANGED <<config, changes>>

ggipc_update_state(state) ==
  LET err == IF state \in {"RUNNING", "ERRORED"} THEN "OK" ELSE "INVALID"
  IN /\ command = NoCommand
     /\ command' = [pc |-> IF err = "OK" THEN "sent" ELSE "done", op |-> "state", ret |-> err]
     /\ UNCHANGED <<config, changes>>

\* The server does what was asked; the tree it read or left is remembered.
Serve ==
  /\ command.pc = "sent"
  /\ command.op = "update" => changes < MaxChanges
  /\ LET u == ggipc_update_config(command.path, command.time, command.value)
         after == IF command.op = "update" THEN Merge(config, Nest(u.keys, u.pairs))
                  ELSE config
         answer == CASE command.op = "get" -> GetAnswer(command.path)
                     [] command.op = "restart" ->
                          Answered(<<gg_kv("out", "restartStatus", gg_obj_buf("out", "OK"))>>)
                     [] OTHER -> Answered(<<>>)
     IN /\ config' = after
        /\ changes' = IF command.op = "update" THEN changes + 1 ELSE changes
        /\ command' = [pc |-> "answered", answer |-> answer, tree |-> after] @@ command

\* The server refuses, or answers in a form that does not fit.
ServeBadly ==
  /\ command.pc = "sent"
  /\ \E answer \in {Refusal(code) : code \in Codes} \cup
                   (IF command.op = "get" THEN BadAnswers
                    ELSE IF command.op = "restart"
                      THEN {Answered(<<>>), Answered(<<gg_kv("out", "restartStatus",
                                                             gg_obj_buf("out", "FAILED"))>>)}
                    ELSE {}) :
       command' = [pc |-> "answered", answer |-> answer, tree |-> config] @@ command
  /\ UNCHANGED <<config, changes>>

restart_response_handler(resp) ==
  IF \/ gg_map_validate(resp, <<[key |-> "restartStatus", required |-> "required",
                                 type |-> "buf"]>>) # "OK"
     \/ resp[gg_map_get(resp, "restartStatus")].val.data = "FAILED"
    THEN "FAILURE" ELSE "OK"

GetResult(api, resp, final_key, mem) ==
  CASE api = "c" -> copy_config_obj(resp, final_key, mem)
    [] api = "c_str" -> copy_config_buf(resp, final_key, mem)
    [] api = "cpp" -> get_config_obj_callback(resp, final_key, mem, AnyType)
    [] api = "cpp_i64" -> get_config_obj_callback(resp, final_key, mem, {"i64"})
    [] api = "cpp_str" -> get_config_str_callback(resp, final_key, mem)
    [] api = "rust" -> rust_get_config(resp, final_key, mem)
    [] api = "rust_str" -> rust_get_config_str(resp, final_key, mem)

CommandReturn ==
  LET a == command.answer
      err == IF a.ok THEN IF command.op = "restart" THEN restart_response_handler(a.pairs) ELSE "OK"
             ELSE IF command.op = "get" THEN error_handler(a.code) ELSE "FAILURE"
  IN /\ command.pc = "answered"
     /\ IF command.op = "get" /\ a.ok
          THEN LET r == GetResult(command.api, a.pairs, FinalKey(command.path), command.mem)
               IN command' = [command EXCEPT !.pc = "done", !.ret = r.err, !.out = r.out]
          ELSE command' = [command EXCEPT !.pc = "done", !.ret = err]
     /\ UNCHANGED <<config, changes>>

CommandDone ==
  /\ command.pc = "done"
  /\ command' = NoCommand
  /\ UNCHANGED <<config, changes>>

\* Another component, or a deployment, changes the configuration.
OtherUpdate(path, value) ==
  /\ changes < MaxChanges
  /\ changes' = changes + 1
  /\ config' = Merge(config, Nest(Front(path), <<gg_kv("out", Last(path), value)>>))
  /\ UNCHANGED command

ConfigNext ==
  \/ \E api \in GetApis, path \in ConfigPaths, mem \in ResultSizes : GetConfig(api, path, mem)
  \/ \E api \in {"c", "cpp", "rust"}, path \in ConfigPaths, time \in {"none", "now", "negative"},
        value \in ConfigValues : UpdateConfig(api, path, time, value)
  \/ ggipc_restart_component
  \/ \E state \in {"RUNNING", "ERRORED", "other"} : ggipc_update_state(state)
  \/ Serve
  \/ ServeBadly
  \/ CommandReturn
  \/ CommandDone
  \/ \E path \in ConfigPaths \ {<<>>}, value \in ConfigValues : OtherUpdate(path, value)

-----------------------------------------------------------------------------
\* The value itself, or, which the answer of the server cannot tell apart, the
\* only entry of a map if its key is the last of the path.
ReadAs(v, path) ==
  {Erase(v)} \cup
  (IF /\ v.t = "map" /\ Len(v.pairs) = 1
      /\ v.pairs[1].key.data \in FinalKey(path) /\ v.pairs[1].val.t # "map"
     THEN {Erase(v.pairs[1].val)} ELSE {})

\* A path means the same to update_config and get_config, in C, C++ and Rust: a
\* value that an update stored is under that path afterwards, a get that
\* succeeds returns what the server held under its path when it answered, and a
\* get of something that is there fails only for its path, its type, its size
\* or a bad answer; a result variable is never left half written.
ConfigReadBack ==
  command.pc = "done" =>
    /\ command.op = "update" /\ command.ret = "OK" =>
         IF command.value.t = "map"
           THEN \A k \in DOMAIN command.value.pairs :
                  LET p == command.value.pairs[k]
                      there == Stored(command.tree, Append(command.path, p.key.data))
                  IN there # {} /\ (p.val.t # "map" => there = {p.val})
           ELSE Stored(command.tree, command.path) = {command.value}
    /\ command.op = "get" /\ command.ret = "OK" =>
         \E v \in Stored(command.tree, command.path) :
           /\ Erase(command.out) \in ReadAs(v, command.path)
           /\ command.api \in {"c_str", "cpp_str", "rust_str"} => command.out.t = "buf"
           /\ command.api = "cpp_i64" => command.out.t = "i64"
           /\ MemUsage(command.out) <= command.mem
    /\ command.op = "get" /\ command.ret # "OK" =>
         /\ command.out = OnError(command.api)
         /\ command.ret \in {"NOMEM", "RANGE"} =>
              \/ Len(command.path) > MaxKeys
              \/ \E v \in Stored(command.tree, command.path) : MemUsage(v) > command.mem
         /\ command.ret = "NOENTRY" => Stored(command.tree, command.path) = {}
         /\ command.ret = "PARSE" => command.api \in {"cpp_i64", "cpp_str"}
=============================================================================
