----------------------------- MODULE MCBindings -----------------------------
(***************************************************************************)
(* The commands and what the language bindings add to them: configuration, *)
(* publish and subscribe, and the ownership of subscriptions.  The three   *)
(* do not share state, so one moves while the others are where they begin. *)
(***************************************************************************)
EXTENDS ConfigCommands, PubSub, Subscriptions

BindingsInit == ConfigInit /\ PubSubInit /\ SubsInit

ConfigStep ==
  /\ PubSubInit /\ SubsInit
  /\ ConfigNext
  /\ UNCHANGED <<pubsubVars, subVars>>

PubSubStep ==
  /\ ConfigInit /\ SubsInit
  /\ PubSubNext
  /\ UNCHANGED <<configVars, subVars>>

SubsStep ==
  /\ ConfigInit /\ PubSubInit
  /\ SubsNext
  /\ UNCHANGED <<configVars, pubsubVars>>

BindingsNext == ConfigStep \/ PubSubStep \/ SubsStep

BindingsSpec == BindingsInit /\ [][BindingsNext]_<<configVars, pubsubVars, subVars>>

-----------------------------------------------------------------------------
KV(key, val) == gg_kv("out", key, val)
Str(data) == gg_obj_buf("out", data)

\* Paths of every length up to one key more than a C update takes.
x == <<1>>
y == <<2>>
MCConfigPaths == {<<>>, <<x>>, <<x, y>>, <<x, x, y>>, <<y, x, x, y>>}

\* A scalar, a string, and maps with one entry, also under the key that is the
\* last of a path.
MCConfigValues ==
  {gg_obj_i64(5), Str(<<7, 7, 7>>), gg_obj_map("out", <<>>),
   gg_obj_map("out", <<KV(y, gg_obj_i64(6))>>),
   gg_obj_map("out", <<KV(x, gg_obj_map("out", <<KV(x, Str(<<>>))>>))>>)}

MCJson == {<<>>, <<KV("k", gg_obj_i64(1))>>}

MCPayloads == {<<>>, <<0>>, <<255, 1>>, <<1, 2, 3>>}

MCKeyPaths == {<<>>, <<x>>, <<x, y>>}

\* What is missing, doubled, of a wrong type, not base64, or meant for another
\* operation.
Good(message) == Map(<<<<"message", message>>, <<"context", Map(<<<<"topic", Str("t")>>>>)>>>>)
Pubsub(data) == [type |-> "SubscriptionResponseMessage", data |-> data]
Iot(fields) == [type |-> "IoTCoreMessage", data |-> <<KV("message", Map(fields))>>]
Update(fields) ==
  [type |-> "ConfigurationUpdateEvents",
   data |-> <<KV("configurationUpdateEvent", Map(fields))>>]

MCBadEvents ==
  {Pubsub(<<>>),
   Pubsub(<<KV("jsonMessage", gg_obj_i64(1))>>),
   Pubsub(<<KV("jsonMessage", Good(Map(<<>>))), KV("binaryMessage", Good(Str(<<>>)))>>),
   Pubsub(<<KV("jsonMessage", Good(Str(<<>>)))>>),
   Pubsub(<<KV("binaryMessage", Good(Map(<<>>)))>>),
   Pubsub(<<KV("binaryMessage", Good(Str(<<65>>)))>>),
   Pubsub(<<KV("binaryMessage", Map(<<<<"message", Str(<<>>)>>>>))>>),
   Pubsub(<<KV("jsonMessage", Map(<<<<"message", Map(<<>>)>>,
                                    <<"context", Map(<<<<"topic", gg_obj_i64(1)>>>>)>>>>))>>),
   [type |-> "IoTCoreMessage", data |-> <<KV("message", Str(<<>>))>>],
   Iot(<<<<"topicName", Str("t")>>>>),
   Iot(<<<<"topicName", Str("t")>>, <<"payload", gg_obj_i64(1)>>>>),
   Iot(<<<<"topicName", Str("t")>>, <<"payload", Str(<<65, 65, 65, 33>>)>>>>),
   [type |-> "ConfigurationUpdateEvents", data |-> <<>>],
   Update(<<<<"keyPath", gg_obj_list("out", <<>>)>>>>),
   Update(<<<<"componentName", Str("t")>>, <<"keyPath", Str(<<>>)>>>>),
   Update(<<<<"componentName", Str("t")>>, <<"keyPath", gg_obj_list("out", <<gg_obj_i64(1)>>)>>>>)}
=============================================================================
