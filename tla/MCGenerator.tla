---------------------------- MODULE MCGenerator ----------------------------
EXTENDS Generator

point32 == <<"geometry_msgs", "Point32">>
vector3 == <<"geometry_msgs", "Vector3">>
quaternion == <<"geometry_msgs", "Quaternion">>
header == <<"std_msgs", "Header">>
alike == <<"tf_msgs", "Vector3">>
joy == <<"sensor_msgs", "Joy">>
path == <<"nav_msgs", "Path">>

number == [shape |-> "plain", kind |-> "basic", ref |-> NoRef]
one(ref) == [shape |-> "plain", kind |-> "nested", ref |-> ref]
many(ref) == [shape |-> "unbounded", kind |-> "nested", ref |-> ref]

message(name, fields) == [name |-> name, fields |-> fields]
msg(dir, name, fields) == [is |-> "ok", dir |-> dir, kind |-> "msg", messages |-> <<message(name, fields)>>]
interface(kind, messages) == [is |-> "ok", dir |-> kind, kind |-> kind, messages |-> messages]

bases == <<[kind |-> "basic", ref |-> NoRef], [kind |-> "byte", ref |-> NoRef], [kind |-> "string", ref |-> NoRef],
           [kind |-> "wstring", ref |-> NoRef], [kind |-> "nested", ref |-> point32], [kind |-> "nested", ref |-> header]>>

\* A message with a field of every type.
everyType == FlattenSeq([k \in 1..6 |-> [s \in 1..4 |-> [shape |-> <<"plain", "array", "bounded", "unbounded">>[s]] @@ bases[k]]])

MCIdls == <<"Point32", "Vector3", "Quaternion", "SetPose", "Move">>

MCContents ==
    [f \in ToSet(MCIdls) |->
        CASE f = "Point32" -> {msg("msg", "Point32", <<number, number>>)}
          [] f = "Vector3" -> {msg("msg", "Vector3", <<number>>), Unparsable, Missing}
          [] f = "Quaternion" -> {msg("msg", "Quaternion", everyType), msg("msg", "Quaternion", <<one(alike)>>),
                                  msg("msg", "Quaternion", <<one(header)>>), msg("msg", "Quaternion", <<one(joy)>>),
                                  msg("none", "Quaternion", <<many(header)>>)}
          [] f = "SetPose" -> {interface("srv", <<message("SetPose_Request", <<one(vector3)>>),
                                                  message("SetPose_Response", <<one(joy), many(point32)>>)>>),
                               interface("srv", <<message("SetPose_Request", <<>>), message("SetPose_Response", <<many(path)>>)>>)}
          [] f = "Move" -> {interface("action", <<message("Move_Goal", <<one(header)>>), message("Move_Result", <<one(point32)>>),
                                                  message("Move_Feedback", <<number, number>>)>>)}]

MCTemplates == ({"value", "publisher", "subscriber", "client", "server"} \X {"hpp", "cpp"}) \cup {<<"utils", "hpp">>}

MCMapped == {point32}
MCLocal == {"std_msgs", "tf_msgs"}
MCHelpers == {vector3, quaternion}
MCExtraIncludes == {<<quaternion, vector3>>}
=============================================================================
