------------------------------- MODULE Session -------------------------------
(***************************************************************************)
(* One stdio MCP connection (mcp.rs).  Requests are numbered from 1 and    *)
(* one is outstanding at a time: the last.  The client reads line by line  *)
(* and passes over everything that is not the response it waits for.  The  *)
(* server is another process: it may answer late, twice or not at all,     *)
(* send notifications, or close the pipe.                                  *)
(***************************************************************************)
EXTENDS Naturals, Sequences

CONSTANT MaxStray   \* bound: lines beyond the first answer to each request

ASSUME StrayAssumption == MaxStray \in Nat

Connected == [asked |-> <<>>, lines |-> <<>>, said |-> {}, stray |-> 0, closed |-> FALSE]

Request(s, method) == [s EXCEPT !.asked = Append(@, method)]

Outstanding(s) == Len(s.asked)

Waiting(s) == s.asked[Outstanding(s)]   \* the method of the outstanding request

-----------------------------------------------------------------------------
(* What the server may do.  said is everything it has answered so far.     *)

Line(id, what) == [id |-> id, what |-> what]
Notification == Line(0, "notice")

Replies(method) ==
    CASE method = "initialize" -> {"ok", "error"}
      [] method = "tools/list" -> {"guarded", "answering", "error"}
      [] method = "tools/call" -> {"result", "failure", "error"}
      [] method = "human.request" -> {"task", "error"}
      [] method = "human.await" -> {"wait", "approve", "deny", "cancelled", "other", "error"}

Written(s, line) ==
    [s EXCEPT !.lines = Append(@, line),
              !.said = IF line.id = 0 THEN @ ELSE @ \cup {line}]

Answered(s, id) == \E line \in s.said : line.id = id

Said(s, method, what) == \E line \in s.said : s.asked[line.id] = method /\ line.what = what

Strayed(s, line) == [Written(s, line) EXCEPT !.stray = @ + 1]

-----------------------------------------------------------------------------
(* receive_response: what the next line means to the client.               *)

(* Nothing more can be read: the pipe was closed, or what follows is no    *)
(* line of the protocol.                                                   *)
Broken(s) == s.lines = <<>> /\ s.closed


(* Mutant: any response is taken for the one the client waits for.         *)
RespondsToAny(s) == s.lines # <<>> /\ Head(s.lines).id # 0

Responds(s) == s.lines # <<>> /\ Head(s.lines).id = Outstanding(s)

Passed(s) == s.lines # <<>> /\ ~Responds(s)

Read(s) == [s EXCEPT !.lines = Tail(@)]
=============================================================================
