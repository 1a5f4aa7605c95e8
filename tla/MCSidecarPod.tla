---------------------------- MODULE MCSidecarPod ----------------------------
(***************************************************************************)
(* Small instances of SidecarPod: Profilers and pods that differ from a    *)
(* plain one in what the code branches on, one group of fields at a time.  *)
(***************************************************************************)
EXTENDS SidecarPod

NoAuth == [type |-> "", username |-> FALSE, password |-> FALSE, secret |-> "",
           usernameKey |-> "", passwordKey |-> ""]
Plain == [cpu |-> NotSet, mem |-> 100, period |-> 15, bucket |-> "b", region |-> "us-east-1",
          aws |-> [secret |-> "", id |-> FALSE, key |-> FALSE], url |-> "", auth |-> NoAuth]
Pair == [NoAuth EXCEPT !.type = "Basic", !.username = TRUE, !.password = TRUE]
Ref == [NoAuth EXCEPT !.type = "Basic", !.secret = "s1", !.passwordKey = "token"]

MCProfilers ==
    {[Plain EXCEPT !.cpu = 0, !.mem = NotSet, !.period = 0, !.auth = [Pair EXCEPT !.type = "None"]],
     [Plain EXCEPT !.period = -1, !.aws.id = TRUE, !.auth = Pair],
     [Plain EXCEPT !.bucket = "", !.region = ""],
     [Plain EXCEPT !.aws = [secret |-> "s1", id |-> TRUE, key |-> TRUE]],
     [Plain EXCEPT !.aws.id = TRUE, !.aws.key = TRUE, !.auth = [Pair EXCEPT !.password = FALSE]],
     [Plain EXCEPT !.url = "profiler", !.auth = [Pair EXCEPT !.secret = "s1"]],
     [Plain EXCEPT !.aws.secret = "s1", !.auth = Ref]}

PlainPod == [NoAnnotations EXCEPT !.token = TRUE]

MCPods ==
    {[PlainPod EXCEPT !.token = FALSE],
     [PlainPod EXCEPT !.url = "pod", !.authType = "None", !.port = 65535],
     [PlainPod EXCEPT !.username = TRUE, !.port = 65536],
     [PlainPod EXCEPT !.username = TRUE, !.password = TRUE, !.secret = "s2", !.target = "app"],
     [PlainPod EXCEPT !.authType = "Basic", !.password = TRUE, !.secret = "s2",
                      !.usernameKey = "token", !.endpoint = "e", !.pathStyle = "1", !.port = 1]}

AllKeys == CredentialVars \cup {"username", "password", "token"}
MCKeySets == {{}, AllKeys, AllKeys \ {"password", "AWS_SECRET_ACCESS_KEY"}}
=============================================================================
