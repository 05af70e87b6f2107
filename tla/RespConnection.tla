--------------------------- MODULE RespConnection ---------------------------
(***************************************************************************)
(* One connection between CacheClient and LRUCacheServer.  A command is an *)
(* array: a header that counts the elements, and the elements.  The server *)
(* reads chunks, and applies parse_resp to what it has, again and again,   *)
(* until that returns None.  A chunk may end anywhere; an element that is  *)
(* not all there parses as one that is not there at all, so it is enough   *)
(* that chunks end between elements.                                       *)
(*                                                                         *)
(* parse_resp waits for an array of which the first element is missing.    *)
(* For a later one that is missing it puts None in the list, and goes on.  *)
(***************************************************************************)
EXTENDS Naturals, Sequences

CONSTANTS
    Keys, Values,
    None,           \* Python's None
    MaxCommands     \* bound

\* What is assumed of the constants.
Assumptions == None \notin Keys \cup Values /\ MaxCommands \in Nat

\* The arguments of _send_command.
Commands == {<<"SET", k, v>> : k \in Keys, v \in Values}
            \cup {<<op, k>> : op \in {"GET", "DEL"}, k \in Keys}

Element == {"SET", "GET", "DEL"} \cup Keys \cup Values
Token   == [header : {TRUE}, size : {2, 3}] \cup [header : {FALSE}, element : Element]

VARIABLES
    command,        \* the command the client waits for, or <<>>
    sent,           \* the number of commands sent
    stream,         \* tokens sent and not read
    unparsed,         \* tokens read and not parsed
    store,          \* data_store; None where a key is absent, or its value is None
    replies,        \* the replies the client has not read
    acked,          \* history: the value each key has by the replies the client got
    torn            \* history: the keys of which the last command was cut after its
                    \* first element

vars == <<command, sent, stream, unparsed, store, replies, acked, torn>>

Init ==
    /\ command = <<>> /\ sent = 0
    /\ stream = <<>> /\ unparsed = <<>> /\ replies = <<>>
    /\ store = [k \in Keys \cup {None} |-> None]
    /\ acked = [k \in Keys |-> None]
    /\ torn = {}

-----------------------------------------------------------------------------
(* The client.                                                             *)

\* The request _send_command writes.
Encoded(cmd) ==
    <<[header |-> TRUE, size |-> Len(cmd)]>>
    \o [i \in 1..Len(cmd) |-> [header |-> FALSE, element |-> cmd[i]]]

SendCommand(cmd) ==
    /\ command = <<>> /\ sent < MaxCommands
    /\ command' = cmd
    /\ sent' = sent + 1
    /\ stream' = stream \o Encoded(cmd)
    /\ torn' = torn \ {cmd[2]}
    /\ UNCHANGED <<unparsed, store, replies, acked>>

\* What the client knows of a key by a reply, when it knew v.
Learned(cmd, reply, v) ==
    CASE cmd[1] = "SET" -> IF reply = "OK" THEN cmd[3] ELSE v
      [] cmd[1] = "GET" -> reply
      [] cmd[1] = "DEL" -> None

\* recv, parse_resp of the reply, and the return of set, get or delete.  The rest of
\* what was received is dropped.
ReturnReply ==
    /\ command # <<>> /\ replies # <<>>
    /\ acked' = [acked EXCEPT ![command[2]] = Learned(command, Head(replies), @)]
    /\ command' = <<>>
    /\ \E n \in 1..Len(replies) : replies' = SubSeq(replies, n + 1, Len(replies))
    /\ UNCHANGED <<sent, stream, unparsed, store, torn>>

-----------------------------------------------------------------------------
(* parse_resp on what the server has read.                                 *)

\* "return None, unparsed": nothing, or a header without the first element.
Waits(b) == Len(b) <= 1 /\ \A i \in 1..Len(b) : b[i].header

\* The elements it returns for the array at the head of b.
Elements(b) ==
    [i \in 1..Head(b).size |-> IF i < Len(b) THEN b[i + 1].element ELSE None]

\* Mutant: the elements that were there are left in the unparsed when one is missing.
RestUnlessWhole(b) ==
    IF ~Head(b).header THEN Tail(b)
    ELSE IF Len(b) <= Head(b).size THEN b ELSE SubSeq(b, Head(b).size + 2, Len(b))

\* Mutant: everything that was read is taken.
RestNothing(b) == <<>>

\* The rest it returns: after a bulk string, or after the elements that were there.
Rest(b) == IF Head(b).header THEN SubSeq(b, Head(b).size + 2, Len(b)) ELSE Tail(b)

-----------------------------------------------------------------------------
(* The server's thread for the connection.                                 *)

\* The tokens of the command the client waits for that have been read when rest has
\* not.
ReadOfCommand(rest) ==
    IF Len(rest) > Len(command) THEN 0 ELSE Len(command) + 1 - Len(rest)

\* conn.recv(4096)
ReadChunk ==
    /\ Waits(unparsed)
    /\ \E n \in 1..Len(stream) :
          /\ unparsed' = unparsed \o SubSeq(stream, 1, n)
          /\ stream' = SubSeq(stream, n + 1, Len(stream))
    /\ torn' = IF command # <<>> /\ stream' # <<>> /\ ReadOfCommand(stream') >= 2
               THEN torn \cup {command[2]} ELSE torn
    /\ UNCHANGED <<command, sent, store, replies, acked>>

\* What a command does to the store, and its reply: None stands for "$-1".
Execute(cmd) ==
    \/ cmd[1] = "SET" /\ store' = [store EXCEPT ![cmd[2]] = cmd[3]]
                      /\ replies' = Append(replies, "OK")
    \/ cmd[1] = "GET" /\ store' = store
                      /\ replies' = Append(replies, store[cmd[2]])
    \/ cmd[1] = "DEL" /\ store' = [store EXCEPT ![cmd[2]] = None]
                      /\ replies' = Append(replies, "OK")

\* One round of the loop over the unparsed: a list is executed, a string that comes by
\* itself is passed over.
ServeNext ==
    /\ ~Waits(unparsed)
    /\ IF Head(unparsed).header THEN Execute(Elements(unparsed)) ELSE UNCHANGED <<store, replies>>
    /\ unparsed' = Rest(unparsed)
    /\ UNCHANGED <<command, sent, stream, acked, torn>>

Next == (\E cmd \in Commands : SendCommand(cmd)) \/ ReturnReply \/ ReadChunk \/ ServeNext

Spec == Init /\ [][Next]_vars

\* The client that waits and the server's thread keep running.
Fairness == WF_vars(ReturnReply) /\ WF_vars(ReadChunk) /\ WF_vars(ServeNext)
FairSpec == Spec /\ Fairness

-----------------------------------------------------------------------------
TypeOK ==
    /\ command \in Commands \cup {<<>>} /\ sent \in 0..MaxCommands
    /\ stream \in Seq(Token) /\ unparsed \in Seq(Token)
    /\ store \in [Keys \cup {None} -> Values \cup {None}]
    /\ replies \in Seq(Values \cup {None, "OK"})
    /\ acked \in [Keys -> Values \cup {None}]
    /\ torn \subseteq Keys

\* Between two calls the client knows what the server stores of every key whose last
\* command was not cut after its first element: each reply it took was the reply to
\* the command it had sent, whatever was left over from commands cut before
\* (cache_manager.py:66-74, lru_cache.py:118-158).  The hazard is the exception: a SET
\* of which the value is missing stores None and is answered +OK.
AcknowledgedIsStored ==
    command = <<>> => \A k \in Keys \ torn : store[k] = acked[k]

\* Every call returns, wherever the chunks of the commands end: the server never
\* waits for what the client has sent, nor the client for a reply that went by.
CallsReturn == []<>(command = <<>>)
=============================================================================
