------------------------------ MODULE OneProcess ------------------------------
(***************************************************************************)
(* What MPI promises a program that runs as a single process: a message    *)
(* goes to the earliest posted receive that accepts its tag, a receive     *)
(* gets the earliest message it accepts, the data arrive, a request is     *)
(* over when its message has gone, a call gives the program up only if it  *)
(* waits for what cannot come, and groups are sets of ranks.  Nothing is   *)
(* said of handles, lists of requests, typemaps or offsets.                *)
(***************************************************************************)
EXTENDS Integers, Sequences, SequencesExt

CONSTANTS Slots,     \* the places a program keeps a request in
          Comms,     \* the variables it keeps communicators in
          AnyTag     \* the tag that accepts every tag

VARIABLES valid,     \* the variables that hold a communicator
          mail,      \* per communicator: messages not received, [slot, tag]
          wanted,    \* per communicator: receives without a message
          stage,     \* per slot: "idle", "open" or "done"
          text,      \* per slot: the bytes sent from or received into its buffer
          pouch,     \* bytes packed and not unpacked
          group,     \* a set of ranks, or {-1} for no group
          probed,    \* what the last probe found
          stuck,     \* the library has ended the program
          asked      \* the last call

promiseVars == <<valid, mail, wanted, stage, text, pouch, group, probed, stuck, asked>>

NoGroup == {-1}

Init ==
  /\ valid \subseteq Comms
  /\ mail = [c \in Comms |-> <<>>] /\ wanted = [c \in Comms |-> <<>>]
  /\ stage = [s \in Slots |-> "idle"] /\ text = [s \in Slots |-> <<>>]
  /\ pouch = <<>> /\ group = NoGroup /\ probed = <<>> /\ stuck = FALSE

Accepts(wish, tag) == wish \in {AnyTag, tag}

\* The first place of a queue whose tag agrees, 0 for none
First(queue, Agrees(_)) ==
  SelectInSeq(queue, LAMBDA entry : Agrees(entry.tag))

Send(c, s, tag) ==
  LET k == First(wanted[c], LAMBDA wish : Accepts(wish, tag))
      r == wanted[c][k].slot
  IN  /\ stage[s] = "idle" /\ c \in valid
      /\ IF k = 0
         THEN /\ mail' = [mail EXCEPT ![c] = Append(@, [slot |-> s, tag |-> tag])]
              /\ stage' = [stage EXCEPT ![s] = "open"]
              /\ text' = [text EXCEPT ![s] = text'[s]]
              /\ UNCHANGED wanted
         ELSE /\ wanted' = [wanted EXCEPT ![c] = RemoveAt(@, k)]
              /\ stage' = [stage EXCEPT ![s] = "done", ![r] = "done"]
              /\ text' = [text EXCEPT ![s] = text'[s], ![r] = text'[s]]
              /\ UNCHANGED mail
      /\ UNCHANGED <<valid, pouch, group, probed>>

Receive(c, s, wish) ==
  LET k == First(mail[c], LAMBDA tag : Accepts(wish, tag))
      m == mail[c][k].slot
  IN  /\ stage[s] = "idle" /\ c \in valid
      /\ IF k = 0
         THEN /\ wanted' = [wanted EXCEPT ![c] = Append(@, [slot |-> s, tag |-> wish])]
              /\ stage' = [stage EXCEPT ![s] = "open"]
              /\ UNCHANGED <<mail, text>>
         ELSE /\ mail' = [mail EXCEPT ![c] = RemoveAt(@, k)]
              /\ stage' = [stage EXCEPT ![s] = "done", ![m] = "done"]
              /\ text' = [text EXCEPT ![s] = text[m]]
              /\ UNCHANGED wanted
      /\ UNCHANGED <<valid, pouch, group, probed>>

\* To or from nobody: over at once
Nowhere(s) == /\ stage[s] = "idle"
              /\ stage' = [stage EXCEPT ![s] = "done"]
              /\ text' = [text EXCEPT ![s] = text'[s]]
              /\ UNCHANGED <<valid, mail, wanted, pouch, group, probed>>

\* The requests of these slots are looked at in turn; those that are over end
Finish(slots) ==
  /\ stage' = [s \in Slots |-> IF s \in slots /\ stage[s] = "done" THEN "idle" ELSE stage[s]]
  /\ text' = [s \in Slots |-> IF stage'[s] = "idle" THEN <<>> ELSE text[s]]
  /\ UNCHANGED <<valid, mail, wanted, pouch, group, probed>>

\* The first of the slots whose request is over; as in the library, and not in
\* MPI, a slot without a request counts as one
Foremost(slots) ==
  {s \in slots : stage[s] # "open" /\ \A q \in slots : stage[q] # "open" => q >= s}

Looked == CASE asked'.how = "each"  -> Finish(asked'.slots)
            [] asked'.how = "one"   -> Finish(Foremost(asked'.slots))
            [] asked'.how = "until" ->
                 Finish({s \in asked'.slots : \A q \in asked'.slots :
                           stage[q] = "open" => q > s})

\* A request that is looked at is still open
Blocked == CASE asked'.how = "one" -> \A s \in asked'.slots : stage[s] = "open"
             [] asked'.how = "until" -> \E s \in asked'.slots : stage[s] = "open"
             [] OTHER -> FALSE

Probe(c, wish) ==
  LET k == First(mail[c], LAMBDA tag : Accepts(wish, tag))
  IN  /\ c \in valid
      /\ probed' = IF k = 0 THEN <<>> ELSE << mail[c][k].tag >>
      /\ UNCHANGED <<valid, mail, wanted, stage, text, pouch, group>>

\* The bytes of one slot go to another one, or nothing moves
Move(from, to) ==
  /\ text' = IF asked'.moves THEN [text EXCEPT ![from] = text'[from], ![to] = text'[from]]
             ELSE text
  /\ UNCHANGED <<valid, mail, wanted, stage, pouch, group, probed>>

Pack(s) == /\ text' = [text EXCEPT ![s] = text'[s]]
           /\ pouch' = pouch \o text'[s]
           /\ UNCHANGED <<valid, mail, wanted, stage, group, probed>>

Unpack(s) == /\ text' = [text EXCEPT ![s] = text'[s]]
             /\ text'[s] # <<>> /\ text'[s] \o pouch' = pouch
             /\ UNCHANGED <<valid, mail, wanted, stage, group, probed>>

NewComm(c) ==
  /\ valid' = IF asked'.empty THEN valid \ {c} ELSE valid \cup {c}
  /\ UNCHANGED <<mail, wanted, stage, text, pouch, group, probed>>

FreeComm(c) == /\ valid' = valid \ {c}
               /\ UNCHANGED <<mail, wanted, stage, text, pouch, group, probed>>

MakeGroup == /\ group' = CASE asked'.op = "all"        -> {0}
                           [] asked'.op = "only"       -> group \cap asked'.ranks
                           [] asked'.op = "union"      -> group \cup asked'.ranks
                           [] asked'.op = "intersect"  -> group \cap asked'.ranks
                           [] asked'.op = "difference" -> group \ asked'.ranks
                           [] asked'.op = "none"       -> NoGroup
             /\ UNCHANGED <<valid, mail, wanted, stage, text, pouch, probed>>

\* The program ends with a call that waits for what cannot come, or that MPI
\* does not allow
Hopeless == \/ asked'.kind = "look" /\ asked'.waits /\ Blocked
            \/ asked'.kind = "probe" /\ asked'.waits /\ probed' = <<>>
            \/ asked'.kind = "send" /\ asked'.ready /\ stage'[asked'.s] = "open"
            \/ asked'.kind = "wrong"

Next ==
  /\ ~stuck
  /\ CASE asked'.kind = "send"    -> Send(asked'.c, asked'.s, asked'.tag)
       [] asked'.kind = "receive" -> Receive(asked'.c, asked'.s, asked'.tag)
       [] asked'.kind = "nowhere" -> Nowhere(asked'.s)
       [] asked'.kind = "look"    -> Looked
       [] asked'.kind = "probe"   -> Probe(asked'.c, asked'.tag)
       [] asked'.kind = "move"    -> Move(asked'.s, asked'.to)
       [] asked'.kind = "pack"    -> Pack(asked'.s)
       [] asked'.kind = "unpack"  -> Unpack(asked'.s)
       [] asked'.kind = "newcomm" -> NewComm(asked'.c)
       [] asked'.kind = "freecomm" -> FreeComm(asked'.c)
       [] asked'.kind = "group"   -> MakeGroup
       [] asked'.kind \in {"other", "wrong"} -> Finish({})
  /\ stuck' = Hopeless

Spec == Init /\ [][Next]_promiseVars
=============================================================================
