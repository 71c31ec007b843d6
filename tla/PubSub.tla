------------------------------- MODULE PubSub -------------------------------
(***************************************************************************)
(* Publishing, and the handlers that turn events into callbacks            *)
(* (src/src/ipc/client/publish_to_topic.c, publish_to_iot_core.c,          *)
(* subscribe_to_topic.c, subscribe_to_iot_core.c,                          *)
(* subscribe_to_configuration_update.c).  The server is external: it       *)
(* relays a message to the subscribers in the form of an event, and may    *)
(* also send events of any other form.                                     *)
(***************************************************************************)
EXTENDS Objects, Base64

CONSTANTS
  Subscribers,    \* components that are subscribed to everything
  Topics,
  BinaryPayloads, \* byte sequences
  JsonPayloads,   \* the pairs of maps
  KeyPaths,       \* paths that configuration updates are about
  BadEvents,      \* events that do not have the form they should have
  MaxInbox        \* bound: events on the way to a component

ASSUME PayloadAssumption == BinaryPayloads \subseteq Seq(0..255)

ASSUME KeyPathAssumption ==
  \A path \in KeyPaths : path = [k \in 1..Len(path) |-> path[k]]

VARIABLES
  request,    \* the publish that is under way, with what the caller gave
  inbox,      \* [Subscribers -> events on the way]
  heard       \* [Subscribers -> what the last event led to]

pubsubVars == <<request, inbox, heard>>

NoRequest == [op |-> "none"]
Silence == [err |-> "none"]

PubSubInit ==
  /\ request = NoRequest
  /\ inbox = [s \in Subscribers |-> <<>>]
  /\ heard = [s \in Subscribers |-> Silence]

Text(data) == gg_obj_buf("out", data)

Map(fields) == gg_obj_map("out", [k \in DOMAIN fields |-> gg_kv("out", fields[k][1], fields[k][2])])

Get(pairs, key) == pairs[gg_map_get(pairs, key)].val

Need(key, type) == [key |-> key, required |-> "required", type |-> type]

May(key, type) == [key |-> key, required |-> "optional", type |-> type]

-----------------------------------------------------------------------------
\* The form of the events that the server should send on each stream.
Has(pairs, key, type) == gg_map_get(pairs, key) # 0 /\ Get(pairs, key).t = type

TopicForm(e) ==
  /\ e.type = "SubscriptionResponseMessage"
  /\ \E key \in {"jsonMessage", "binaryMessage"} :
       LET m == Get(e.data, key).pairs
       IN /\ \A other \in {"jsonMessage", "binaryMessage"} \ {key} : gg_map_get(e.data, other) = 0
          /\ Has(e.data, key, "map")
          /\ Has(m, "context", "map") /\ Has(Get(m, "context").pairs, "topic", "buf")
          /\ \/ key = "jsonMessage" /\ Has(m, "message", "map")
             \/ /\ key = "binaryMessage" /\ Has(m, "message", "buf")
                /\ gg_base64_decode_in_place(Get(m, "message").data).ok

IotForm(e) ==
  LET m == Get(e.data, "message").pairs
  IN /\ e.type = "IoTCoreMessage"
     /\ Has(e.data, "message", "map")
     /\ Has(m, "topicName", "buf") /\ Has(m, "payload", "buf")
     /\ gg_base64_decode_in_place(Get(m, "payload").data).ok

ConfigForm(e) ==
  LET m == Get(e.data, "configurationUpdateEvent").pairs
  IN /\ e.type = "ConfigurationUpdateEvents"
     /\ Has(e.data, "configurationUpdateEvent", "map")
     /\ Has(m, "componentName", "buf") /\ Has(m, "keyPath", "list")
     /\ \A i \in DOMAIN Get(m, "keyPath").items : Get(m, "keyPath").items[i].t = "buf"

ASSUME BadEventAssumption ==
  \A e \in BadEvents : ~TopicForm(e) /\ ~IotForm(e) /\ ~ConfigForm(e)

-----------------------------------------------------------------------------
\* What a publish sends: the operation and its arguments.
publish_to_topic_common(topic, message) ==
  [op |-> "PublishToTopic",
   args |-> Map(<<<<"topic", Text(topic)>>, <<"publishMessage", message>>>>)]

ggipc_publish_to_topic_json(topic, pairs) ==
  publish_to_topic_common(topic,
    Map(<<<<"jsonMessage", Map(<<<<"message", gg_obj_map("out", pairs)>>>>)>>>>))

ggipc_publish_to_topic_binary(topic, bytes) ==
  publish_to_topic_common(topic,
    Map(<<<<"binaryMessage", Map(<<<<"message", Text(gg_base64_encode(bytes))>>>>)>>>>))

ggipc_publish_to_iot_core(topic, bytes, qos) ==
  [op |-> "PublishToIoTCore",
   args |-> Map(<<<<"topicName", Text(topic)>>, <<"payload", Text(gg_base64_encode(bytes))>>,
                  <<"qos", Text(qos)>>>>)]

\* The event that the server makes of it (external).
EventOf(r) ==
  LET args == r.args.pairs
      message == Get(args, "publishMessage").pairs[1]     \* jsonMessage or binaryMessage
      context == Map(<<<<"topic", Get(args, "topic")>>>>)
  IN IF r.op = "PublishToTopic"
       THEN [type |-> "SubscriptionResponseMessage",
             data |-> <<gg_kv("out", message.key.data,
                        Map(<<<<"message", Get(message.val.pairs, "message")>>,
                              <<"context", context>>>>))>>]
       ELSE [type |-> "IoTCoreMessage",
             data |-> <<gg_kv("out", "message",
                        Map(<<<<"topicName", Get(args, "topicName")>>,
                              <<"payload", Get(args, "payload")>>>>))>>]

ConfigEvent(name, path) ==
  [type |-> "ConfigurationUpdateEvents",
   data |-> <<gg_kv("out", "configurationUpdateEvent",
              Map(<<<<"componentName", Text(name)>>,
                    <<"keyPath", gg_obj_list("out", [k \in DOMAIN path |-> Text(path[k])])>>>>))>>]

-----------------------------------------------------------------------------
\* Handlers: the error, or the arguments of the callback.
Invalid == [err |-> "INVALID"]

Called(kind, name, payload) == [err |-> "OK", kind |-> kind, name |-> name, payload |-> payload]

\* Mutant: a binary message is handed on as it came.
subscribe_to_topic_resp_handler_Encoded(e) ==
  LET json == gg_map_get(e.data, "jsonMessage")
      binary == gg_map_get(e.data, "binaryMessage")
      m == e.data[IF json # 0 THEN json ELSE binary].val.pairs
  IN IF \/ e.type # "SubscriptionResponseMessage"
        \/ gg_map_validate(e.data, <<May("jsonMessage", "map"), May("binaryMessage", "map")>>) # "OK"
        \/ (json = 0) = (binary = 0)
        \/ gg_map_validate(m, <<Need("message", IF json # 0 THEN "map" ELSE "buf"),
                                Need("context", "map")>>) # "OK"
        \/ gg_map_validate(Get(m, "context").pairs, <<Need("topic", "buf")>>) # "OK"
       THEN Invalid
     ELSE Called(IF json # 0 THEN "json" ELSE "binary", Get(Get(m, "context").pairs, "topic").data,
                 IF json # 0 THEN Get(m, "message").pairs ELSE Get(m, "message").data)

subscribe_to_topic_resp_handler(e) ==
  LET json == gg_map_get(e.data, "jsonMessage")
      binary == gg_map_get(e.data, "binaryMessage")
      m == e.data[IF json # 0 THEN json ELSE binary].val.pairs
      topic == Get(Get(m, "context").pairs, "topic").data
      decoded == gg_base64_decode_in_place(Get(m, "message").data)
  IN IF \/ e.type # "SubscriptionResponseMessage"
        \/ gg_map_validate(e.data, <<May("jsonMessage", "map"), May("binaryMessage", "map")>>) # "OK"
        \/ (json = 0) = (binary = 0)
        \/ gg_map_validate(m, <<Need("message", IF json # 0 THEN "map" ELSE "buf"),
                                Need("context", "map")>>) # "OK"
        \/ gg_map_validate(Get(m, "context").pairs, <<Need("topic", "buf")>>) # "OK"
       THEN Invalid
     ELSE IF json # 0 THEN Called("json", topic, Get(m, "message").pairs)
     ELSE IF decoded.ok THEN Called("binary", topic, decoded.data)
     ELSE Invalid

subscribe_to_iot_core_resp_handler(e) ==
  LET m == Get(e.data, "message").pairs
      decoded == gg_base64_decode_in_place(Get(m, "payload").data)
  IN IF \/ e.type # "IoTCoreMessage"
        \/ gg_map_validate(e.data, <<Need("message", "map")>>) # "OK"
        \/ gg_map_validate(m, <<Need("topicName", "buf"), Need("payload", "buf")>>) # "OK"
        \/ ~decoded.ok
       THEN Invalid
       ELSE Called("iot", Get(m, "topicName").data, decoded.data)

subscribe_to_configuration_update_resp_handler(e) ==
  LET m == Get(e.data, "configurationUpdateEvent").pairs
      path == Get(m, "keyPath").items
  IN IF \/ e.type # "ConfigurationUpdateEvents"
        \/ gg_map_validate(e.data, <<Need("configurationUpdateEvent", "map")>>) # "OK"
        \/ gg_map_validate(m, <<Need("componentName", "buf"), Need("keyPath", "list")>>) # "OK"
        \/ gg_list_type_check(path, "buf") # "OK"
       THEN Invalid
       ELSE Called("config", Get(m, "componentName").data,
                   [k \in DOMAIN path |-> path[k].data])

\* The stream of an event decides its handler.
Handle(stream, e) ==
  CASE stream = "topic" -> subscribe_to_topic_resp_handler(e)
    [] stream = "iot" -> subscribe_to_iot_core_resp_handler(e)
    [] stream = "config" -> subscribe_to_configuration_update_resp_handler(e)

-----------------------------------------------------------------------------
\* given: what the publisher called, as a callback should hear it.
Publish(r, stream, given) ==
  /\ request = NoRequest
  /\ request' = [op |-> r.op, args |-> r.args, stream |-> stream, given |-> given]
  /\ UNCHANGED <<inbox, heard>>

PublishError(code) == IF code = "UnauthorizedError" THEN "UNSUPPORTED" ELSE "FAILURE"

Room == \A s \in Subscribers : Len(inbox[s]) < MaxInbox

Send(stream, e, given) ==
  inbox' = [s \in Subscribers |-> Append(inbox[s], [stream |-> stream, event |-> e, given |-> given])]

Relay ==
  /\ request.op \in {"PublishToTopic", "PublishToIoTCore"}
  /\ Room
  /\ Send(request.stream, EventOf(request), request.given)
  /\ request' = [op |-> "returned", ret |-> "OK"]
  /\ UNCHANGED heard

Refuse(code) ==
  /\ request.op \in {"PublishToTopic", "PublishToIoTCore"}
  /\ request' = [op |-> "returned", ret |-> PublishError(code)]
  /\ UNCHANGED <<inbox, heard>>

PublishReturn ==
  /\ request.op = "returned"
  /\ request' = NoRequest
  /\ UNCHANGED <<inbox, heard>>

ConfigChanged(name, path) ==
  /\ Room
  /\ Send("config", ConfigEvent(name, path), Called("config", name, path))
  /\ UNCHANGED <<request, heard>>

SendBad(stream, e) ==
  /\ Room
  /\ Send(stream, e, Invalid)
  /\ UNCHANGED <<request, heard>>

\* A component handles its next event.
Hear(s) ==
  /\ inbox[s] # <<>>
  /\ LET x == Head(inbox[s])
         r == Handle(x.stream, x.event)
     IN heard' = [heard EXCEPT ![s] = [err |-> r.err, called |-> r, given |-> x.given]]
  /\ inbox' = [inbox EXCEPT ![s] = Tail(@)]
  /\ UNCHANGED request

HearDone(s) ==
  /\ heard[s] # Silence
  /\ heard' = [heard EXCEPT ![s] = Silence]
  /\ UNCHANGED <<request, inbox>>

PubSubNext ==
  \/ \E topic \in Topics, pairs \in JsonPayloads :
       Publish(ggipc_publish_to_topic_json(topic, pairs), "topic", Called("json", topic, pairs))
  \/ \E topic \in Topics, bytes \in BinaryPayloads :
       Publish(ggipc_publish_to_topic_binary(topic, bytes), "topic", Called("binary", topic, bytes))
  \/ \E topic \in Topics, bytes \in BinaryPayloads :
       Publish(ggipc_publish_to_iot_core(topic, bytes, "0"), "iot", Called("iot", topic, bytes))
  \/ Relay
  \/ \E code \in {"UnauthorizedError", "ServiceError"} : Refuse(code)
  \/ PublishReturn
  \/ \E name \in Topics, path \in KeyPaths : ConfigChanged(name, path)
  \/ \E stream \in {"topic", "iot", "config"}, e \in BadEvents : SendBad(stream, e)
  \/ \E s \in Subscribers : Hear(s) \/ HearDone(s)

-----------------------------------------------------------------------------
\* A callback hears exactly what was published: the topic and, after encoding,
\* relaying and decoding in place, the same payload of the same kind; an event
\* of another form, or on the stream of another operation, reaches no callback.
PayloadDelivered ==
  \A s \in Subscribers : heard[s] # Silence => heard[s].called = heard[s].given
=============================================================================
