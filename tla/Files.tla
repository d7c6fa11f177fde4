------------------------------- MODULE Files -------------------------------
(***************************************************************************)
(* What a file system promises its users: names refer to files, a file is  *)
(* a sequence of units (bytes in the kernel) and lives as long as a name   *)
(* or a thread refers to it.  A write is applied from its first unit on,   *)
(* up to where it ran out of space or failed; a gap it leaves reads as     *)
(* zeros.                                                                  *)
(***************************************************************************)
EXTENDS Integers, Sequences, Functions

CONSTANTS Threads, Names, FileIds, Data, Zero, MaxUnits

VARIABLES names, held, content

vars == <<names, held, content>>

NoFile == 0

Named == {names[n] : n \in Names} \ {NoFile}
Held == {held[t] : t \in Threads} \ {NoFile}

Init ==
    /\ names = [n \in Names |-> NoFile]
    /\ held = [t \in Threads |-> NoFile]
    /\ content = <<>>

(* Files that nothing refers to any more are gone. *)
Keep(c) == content' = Restrict(c, {f \in DOMAIN c :
    \/ \E n \in Names : names'[n] = f
    \/ \E t \in Threads : held'[t] = f})

(* Reading a file, or failing to find one. *)
Read == UNCHANGED vars

Create(t, n) ==
    /\ names[n] = NoFile /\ held[t] = NoFile
    /\ \E f \in FileIds \ DOMAIN content :
         /\ names' = [names EXCEPT ![n] = f]
         /\ held' = [held EXCEPT ![t] = f]
         /\ content' = [g \in DOMAIN content \cup {f} |->
                          IF g = f THEN <<>> ELSE content[g]]

Hold(t, n) ==
    /\ names[n] # NoFile /\ held[t] = NoFile
    /\ UNCHANGED names
    /\ held' = [held EXCEPT ![t] = names[n]]
    /\ UNCHANGED content

Drop(t) ==
    /\ held[t] # NoFile
    /\ UNCHANGED names
    /\ held' = [held EXCEPT ![t] = NoFile]
    /\ Keep(content)

Remove(n) ==
    /\ names[n] # NoFile
    /\ names' = [names EXCEPT ![n] = NoFile]
    /\ UNCHANGED held
    /\ Keep(content)

RenameTo(n1, n2) ==
    /\ names[n1] # NoFile /\ names[n2] = NoFile
    /\ names' = [names EXCEPT ![n2] = names[n1], ![n1] = NoFile]
    /\ UNCHANGED <<held, content>>

Link(t, n) ==
    /\ held[t] # NoFile /\ names[n] = NoFile
    /\ names' = [names EXCEPT ![n] = held[t]]
    /\ UNCHANGED <<held, content>>

Written(old, pos, n, d) ==
    [u \in 1 .. IF pos + n > Len(old) THEN pos + n ELSE Len(old) |->
        IF pos < u /\ u <= pos + n THEN d
        ELSE IF u <= Len(old) THEN old[u] ELSE Zero]

Write(t) ==
    /\ held[t] # NoFile
    /\ UNCHANGED <<names, held>>
    /\ LET old == content IN content' \in
         {[old EXCEPT ![held[t]] = Written(@, pos, n, d)] :
            pos \in 0 .. MaxUnits, n \in 0 .. MaxUnits, d \in Data}

(* Truncation to nothing; one that fails on the way may have lost data,    *)
(* but only to zeros.                                                      *)
Truncate(t) ==
    /\ held[t] # NoFile
    /\ UNCHANGED <<names, held>>
    /\ \/ content' = [content EXCEPT ![held[t]] = <<>>]
       \/ \E Z \in SUBSET (1 .. Len(content[held[t]])) :
            content' = [content EXCEPT ![held[t]] =
                          [u \in 1 .. Len(@) |-> IF u \in Z THEN Zero ELSE @[u]]]

Next ==
    \/ Read
    \/ \E t \in Threads, n \in Names : Hold(t, n) \/ Create(t, n) \/ Link(t, n)
    \/ \E t \in Threads : Drop(t) \/ Write(t) \/ Truncate(t)
    \/ \E n \in Names : Remove(n)
    \/ \E n1, n2 \in Names : RenameTo(n1, n2)

Spec == Init /\ [][Next]_vars
=============================================================================
