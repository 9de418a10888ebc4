---------------------------- MODULE FileService -----------------------------
(***************************************************************************)
(* What the TFTP programs promise together, without datagrams, blocks and  *)
(* sessions: a store whose files are created once, grow while they are     *)
(* open and then never change, and clients that copy a file out of it or   *)
(* into it, or fail.                                                       *)
(***************************************************************************)
EXTENDS Naturals, Sequences

CONSTANTS
    Client, Name,
    NoFile,       \* content of a file that does not exist
    NoName,       \* what a client asks for before it asks
    Files0,       \* the files in the beginning
    Source,       \* Source[c]: what client c puts
    Uncreatable   \* names under which nothing can be kept

VARIABLES
    files,        \* content of every name
    open,         \* names that are being written
    status,       \* "idle", "get", "put", "got", "stored", "failed"
    name,         \* the name a client has asked for
    began,        \* the file as it was when a get of it began, NoFile if open
    copy          \* what a get has returned

vars == <<files, open, status, name, began, copy>>

Beginning(s, t) == Len(s) <= Len(t) /\ s = SubSeq(t, 1, Len(s))

Init ==
    /\ files = Files0
    /\ open = {}
    /\ status = [c \in Client |-> "idle"]
    /\ name = [c \in Client |-> NoName]
    /\ began = [c \in Client |-> NoFile]
    /\ copy = [c \in Client |-> NoFile]

\* A client asks, or fails before it has.
Begin(c, f, task) ==
    /\ status[c] = "idle"
    /\ \E s \in {task, "failed"} : status' = [status EXCEPT ![c] = s]
    /\ name' = [name EXCEPT ![c] = f]
    /\ began' = [began EXCEPT ![c] = IF task = "get" /\ f \notin open THEN files[f] ELSE NoFile]
    /\ UNCHANGED <<files, open, copy>>

Fail(c) ==
    /\ status[c] \in {"get", "put"}
    /\ status' = [status EXCEPT ![c] = "failed"]
    /\ UNCHANGED <<files, open, name, began, copy>>

\* A get returns the file it began with or, of a file that was open then, a
\* beginning of what the file is now.
Got(c) ==
    /\ status[c] = "get"
    /\ status' = [status EXCEPT ![c] = "got"]
    /\ files[name[c]] # NoFile
    /\ \E k \in 0 .. Len(files[name[c]]) :
          LET s == SubSeq(files[name[c]], 1, k)
          IN  /\ began[c] \in {NoFile, s}
              /\ copy' = [copy EXCEPT ![c] = s]
    /\ UNCHANGED <<files, open, name, began>>

\* A put returns when the store has the whole file.
Stored(c) ==
    /\ status[c] = "put"
    /\ status' = [status EXCEPT ![c] = "stored"]
    /\ name[c] \in Uncreatable \/ files[name[c]] = Source[c]
    /\ UNCHANGED <<files, open, name, began, copy>>

\* For a client that has asked to put it, an absent file is created.
Create(f) ==
    /\ files[f] = NoFile /\ f \notin Uncreatable
    /\ \E c \in Client : name[c] = f /\ status[c] \in {"put", "failed"}
    /\ files' = [files EXCEPT ![f] = <<>>]
    /\ open' = open \cup {f}
    /\ UNCHANGED <<status, name, began, copy>>

\* Open files grow towards what a client puts, and are closed.
Write ==
    /\ open' \subseteq open
    /\ DOMAIN files' = Name
    /\ \A f \in Name : files'[f] # files[f] =>
          /\ f \in open
          /\ Beginning(files[f], files'[f])
          /\ \E c \in Client : name[c] = f /\ Beginning(files'[f], Source[c])
    /\ UNCHANGED <<status, name, began, copy>>

Next ==
    \/ \E c \in Client :
          \/ \E f \in Name, task \in {"get", "put"} : Begin(c, f, task)
          \/ Fail(c) \/ Got(c) \/ Stored(c)
    \/ \E f \in Name : Create(f)
    \/ Write

Spec == Init /\ [][Next]_vars
=============================================================================
