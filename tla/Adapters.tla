------------------------------ MODULE Adapters ------------------------------
(***************************************************************************)
(* What the two HTTP adapters make of a Result of Apply: the status, the   *)
(* X-Potent-Status mark and the body that Proxy.ServeHTTP and, in JSON-RPC *)
(* frames, HTTPHandler.ServeHTTP put on the wire.  A reply is a function   *)
(* of the returned call, so both adapters are judged on the same           *)
(* behaviours of Pipeline.  A request that is not a well-formed tool call  *)
(* never gets as far as Apply and is not part of this.                     *)
(***************************************************************************)
EXTENDS PipelineProperties

\* A reply: its HTTP status (of the gateway's own, or the class of the
\* upstream's), its mark, what its body is, whose answer that body is, and the
\* request whose id is in it.
Reply(status, mark, body, of, id) ==
  [status |-> status, mark |-> mark, body |-> body, of |-> of, id |-> id]

\* net/http ends the connection of a handler that panics.
Aborted == Reply("none", "none", "none", NoCall, NoCall)

Refusals == {"forbidden", "ratelimited", "block"}

\* Result.StatusCode: the upstream's, kept in the entry or on the handle, or
\* the 502 the reverse proxy made up.
StatusCode(r) ==
  IF r.of = NoCall THEN "success"
  ELSE IF outcome[r.of] = "badgateway" THEN "502"
  ELSE IF outcome[r.of] \in {"fail", "failtext"} THEN "failure"
  ELSE "success"

Mark(r) == IF r.decision = "replay" THEN "replayed" ELSE "fresh"

\* Whether response bytes are a JSON object, here always a JSON-RPC frame.
Framed(body, of) ==
  body = "raw" /\ (of = NoCall \/ outcome[of] \notin {"text", "failtext"})

\* The id an upstream puts into its frame: that of the request it answers.
WrittenId(body, of) ==
  IF Framed(body, of) /\ of # NoCall /\ req[of].id THEN of ELSE NoCall

-----------------------------------------------------------------------------
(* Proxy.ServeHTTP.                                                        *)

\* The statuses of http.Error for each decision that refuses a call.
HttpRefusal == [forbidden |-> "403", ratelimited |-> "429", block |-> "409"]

\* A mutant of HttpReply: the switch has no case for a block.
HttpReplyNoBlock(c) ==
  LET r == result[c]
  IN  IF r.err = "panic" THEN Aborted
      ELSE IF r.err # "none" THEN Reply("500", "none", "none", NoCall, NoCall)
      ELSE IF r.decision \in {"forbidden", "ratelimited"}
        THEN Reply(HttpRefusal[r.decision], "none", "none", NoCall, NoCall)
      ELSE Reply(StatusCode(r), Mark(r), r.body, r.of, WrittenId(r.body, r.of))

HttpReply(c) ==
  LET r == result[c]
  IN  IF r.err = "panic" THEN Aborted
      ELSE IF r.err # "none" THEN Reply("500", "none", "none", NoCall, NoCall)
      ELSE IF r.decision \in Refusals
        THEN Reply(HttpRefusal[r.decision], "none", "none", NoCall, NoCall)
      ELSE Reply(StatusCode(r), Mark(r), r.body, r.of, WrittenId(r.body, r.of))

-----------------------------------------------------------------------------
(* HTTPHandler.ServeHTTP of mcp-http: every answer of its own is a 200.    *)

\* The codes of NewErrorResponse for each decision that refuses a call.
RpcRefusal == [forbidden |-> "-32003", ratelimited |-> "-32005",
               block |-> "-32000"]

\* NewErrorResponse with the request's id, which the frame omits if empty.
RpcError(c, code) ==
  Reply("200", "none", code, NoCall, IF req[c].id THEN c ELSE NoCall)

\* A mutant of ReframeWithID: the cached frame is sent as it is.
ReframeNot(c, body, of) ==
  Reply("200", "replayed", body, of, WrittenId(body, of))

\* reframeWithID.  A request without an id, and a body that is no JSON object,
\* leave the bytes alone.  A frame gets the id; the acknowledgement is an
\* object but no frame, and what is left of it after the round trip through
\* Message has no result.
ReframeWithID(c, body, of) ==
  IF req[c].id /\ (body = "ack" \/ Framed(body, of))
    THEN Reply("200", "replayed", IF body = "ack" THEN "hollow" ELSE body, of, c)
    ELSE Reply("200", "replayed", body, of, WrittenId(body, of))

McpReply(c) ==
  LET r == result[c]
  IN  IF r.err = "panic" THEN Aborted
      ELSE IF r.err # "none" THEN RpcError(c, "-32603")
      ELSE IF r.decision \in Refusals THEN RpcError(c, RpcRefusal[r.decision])
      ELSE IF r.decision = "replay" THEN ReframeWithID(c, r.body, r.of)
      ELSE Reply(StatusCode(r), "fresh", r.body, r.of, WrittenId(r.body, r.of))

-----------------------------------------------------------------------------
(* Properties of what goes on the wire.                                    *)

\* The client can believe what it is told.  A call marked as a replay, and one
\* refused with 403, 429, 409 or their JSON-RPC codes, did not reach the
\* upstream.  One marked fresh carries its own answer and did reach it, unless
\* it is a 502, which the gateway also makes up when the dial failed or the
\* client left.
RepliesTellTheTruth ==
  \A c \in Calls :
    pc[c] = "returned" =>
      \A m \in {HttpReply(c), McpReply(c)} :
        /\ \/ m.mark = "replayed"
           \/ m.status \in {"403", "409", "429"}
           \/ m.body \in {"-32000", "-32003", "-32005"}
           => c \notin executed
        /\ m.mark = "fresh" => m.of = c
        /\ m.mark = "fresh" /\ m.status # "502" => c \in executed

\* A JSON-RPC client that gave its request an id finds that id in every frame
\* it gets, whether the answer was its own, another call's from the cache, or
\* a leader's, and never finds anybody else's.  A body that is no frame is not
\* made one.
RepliesCorrelate ==
  \A c \in Calls :
    pc[c] = "returned" /\ req[c].id =>
      LET m == McpReply(c)
          bytes == m.body \in {"none", "ack"}
                   \/ (m.body = "raw" /\ ~Framed(m.body, m.of))
      IN  m.id = IF bytes THEN NoCall ELSE c

-----------------------------------------------------------------------------
(* What the repository says and the code does not do.                      *)

\* http.go, on replays: the client "cannot tell the cache hit from a fresh
\* response besides the X-Potent-Status header".
ReplayLooksFresh ==
  \A c \in Calls :
    LET m == McpReply(c)
        o == result[c].of
    IN  pc[c] = "returned" /\ m.mark = "replayed" /\ o # NoCall
        /\ pc[o] = "returned" =>
          m.status = "200" /\ McpReply(o).status = "success"
          /\ m.body = McpReply(o).body

\* policy.go, of synthesized_ack: the caller "learns that the action was
\* already done".  A JSON-RPC replay says something.
AckReachesClient ==
  \A c \in Calls : pc[c] = "returned" => McpReply(c).body # "hollow"
=============================================================================
