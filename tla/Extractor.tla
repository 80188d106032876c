------------------------------ MODULE Extractor ------------------------------
(***************************************************************************)
(* The request feature extractor (src/controlplane/extractor.go) and the   *)
(* session id it stores (src/session/session.go), as operators.            *)
(*                                                                         *)
(* One extractor belongs to one request and is used by one goroutine, so   *)
(* its lazy cache only decides when doExtraction runs, never what it       *)
(* finds: every read after the first sees the same extractedValues, and    *)
(* the SetHob done by Hob() writes the code it returns.  What a request    *)
(* yields is therefore a function of the raw request, except for the walk  *)
(* over the headerExtractors map, whose order Go does not fix.             *)
(*                                                                         *)
(* A raw request is a record:                                              *)
(*   method, path, host                                                    *)
(*   query, body  parameters, as functions from key to first value        *)
(*   formOk       FALSE when drainBody or ParseForm fails                  *)
(*   srcHeader    X-H-Source ("" if absent)                                *)
(*   route        X-Hailo-Route, as [upper, exact] (see Router)            *)
(*   xApiToken    X-Api-Token ("" if absent)                               *)
(*   authorization  [scheme, token], or NoAuth if absent                   *)
(***************************************************************************)
EXTENDS Sequences, TLC

CONSTANTS
    HostMap,   \* hostMap of citymapping.go: host -> hob, for the hosts it lists
    HostWord   \* HostWord[h]: "driver" if h contains "driver", else
               \* "customer" if it contains "customer", else ""

NoAuth == [scheme |-> "", token |-> ""]

\* url.Values.Get: the first value, or "" for a missing key
Get(params, k) == IF k \in DOMAIN params THEN params[k] ELSE ""

\* req.PostForm after ParseForm: the body for POST and PUT (a missing or
\* unparsable Content-Type is set to form encoding first), else nothing
PostForm(raw) == IF raw.method \in {"POST", "PUT"} THEN raw.body ELSE <<>>

\* r.Form.Get after ParseForm: body values come before query values
FormGet(raw, k) ==
    IF k \in DOMAIN PostForm(raw) THEN PostForm(raw)[k] ELSE Get(raw.query, k)

\* The two headerExtractors
ExtractXApiToken(raw) == raw.xApiToken
ExtractAuthorization(raw) ==
    IF raw.authorization.scheme = "token" THEN raw.authorization.token ELSE ""

\* The first non-empty value of a sequence of candidates, or ""
RECURSIVE FirstNonEmpty(_)
FirstNonEmpty(s) ==
    IF s = <<>> THEN ""
    ELSE IF Head(s) # "" THEN Head(s) ELSE FirstNonEmpty(Tail(s))

\* session.SessionId with r.Form parsed: the query, the form, then the two
\* header extractors in either order of the map walk
SessionIds(raw) ==
    {FirstNonEmpty(<<Get(raw.query, "session_id"), Get(raw.query, "api_token"),
                     FormGet(raw, "session_id"), FormGet(raw, "api_token")>> \o hdrs) :
        hdrs \in {<<ExtractXApiToken(raw), ExtractAuthorization(raw)>>,
                  <<ExtractAuthorization(raw), ExtractXApiToken(raw)>>}}

\* doExtraction: the query's first values, overwritten by the body's; the
\* session id overrides both.  When the body cannot be drained or parsed
\* it returns early with the query values only.
ExtractedValues(raw) ==
    IF ~raw.formOk
    THEN {raw.query}
    ELSE {("session_id" :> sid) @@ PostForm(raw) @@ raw.query : sid \in SessionIds(raw)}

\* CityOrHob then Hob: city, else hob, else the host table (Hob then calls
\* SetHob, so later reads see the same code), else ""
Hob(raw, values) ==
    IF Get(values, "city") # "" THEN Get(values, "city")
    ELSE IF Get(values, "hob") # "" THEN Get(values, "hob")
    ELSE IF raw.host \in DOMAIN HostMap THEN HostMap[raw.host]
    ELSE ""

\* Source: a driver or customer host, else the X-H-Source header
Source(raw) == IF HostWord[raw.host] # "" THEN HostWord[raw.host] ELSE raw.srcHeader

\* What the router's matches, sample and CorrectHostname read of a request
Features(raw) ==
    {[path |-> raw.path, source |-> Source(raw), hob |-> Hob(raw, v),
      values |-> [p \in {"customer", "driver", "device", "session_id"} |-> Get(v, p)],
      route |-> raw.route, host |-> raw.host] : v \in ExtractedValues(raw)}

=============================================================================
