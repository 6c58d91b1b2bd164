--------------------------------- MODULE Files ---------------------------------
(***************************************************************************)
(* What an app may do to files, and the streams it writes them with. The   *)
(* permissions of an image are three statics of its process (teliva.c), an *)
(* entry of the user's configuration file, which the processes of all      *)
(* images share, and a predicate loaded into a Lua state of its own. The   *)
(* app opens, renames and removes files (liolib.c, loslib.c) and writes    *)
(* them as temporary files that close() renames (file.lua). Each app has a *)
(* directory of its own; the text of a predicate is what it answers.       *)
(***************************************************************************)
EXTENDS Integers, FiniteSets, SequencesExt

CONSTANTS
    Image,      \* one process each; the files are those of
    App,
    Keys,       \* what the user presses on an image's permissions screen
    Body,       \* the texts of predicates
    Answer,     \* what they answer to .read and .write: "yes", "no", "error",
                \* "nothing", or "malformed" if they do not load
    Default,
    Permissive,
    Name,       \* the files an app names, and its
    Writer,     \* streams
    MaxTemp,    \* bound: the temporary files of a name
    MaxWrites,  \* bound: the writes to a stream
    Nil

\* The name of a temporary file, which no app gives to a file of its own.
Temp(name, i) == <<name, i>>

ASSUME FilesAssumption ==
    /\ App \in Image /\ Default \in Body
    /\ Permissive \in Body /\ Answer[Default] = [read |-> "no", write |-> "no"]
    /\ MaxTemp \in Nat /\ MaxWrites \in Nat
    /\ \A name \in Name, i \in 1..MaxTemp : Temp(name, i) \notin Name

VARIABLES
    config,     \* the entries of each image in ~/.teliva, in order
    perms,      \* the statics of each process
    predicate,  \* the body its trustedL holds
    screen,     \* "app", "permissions", "editor", "copied" or "off"
    copied,     \* the entries of other images, read for a save
    kept,       \* what the saves so far leave each image with, and the images
    overtaken,  \* for which one changed that after their process began
    disk,       \* the App's directory: paths to files
    data,       \* what is in a file, linked or only open
    writers,    \* the streams of start_writing() and
    reader,     \* of start_reading()
    closed      \* what was written to the stream whose file has each name

permvars == <<config, perms, predicate, screen, copied, kept, overtaken>>
filevars == <<disk, data, writers, reader, closed>>
vars == <<config, perms, predicate, screen, copied, kept, overtaken,
          disk, data, writers, reader, closed>>

Paths == Name \cup {Temp(name, i) : name \in Name, i \in 1..MaxTemp}
File == 1..(Cardinality(Name) * (MaxTemp + 1) + 1)

Perms == [body : Body, ask : BOOLEAN, net : BOOLEAN]
Initially == [body |-> Default, ask |-> FALSE, net |-> FALSE]

\* What an app wrote to a stream, and whether some of it failed to get to the file.
Text == [wrote : Seq(Writer), failed : BOOLEAN]
\* A stream that is being written, at an offset of its file, and one that is
\* being read, with what was under its name.
Writing == [name : Name, temp : Paths, file : File, at : Nat, text : Text]
Reading == [file : File, whole : Text]

ASSUME NilAssumption == Nil \notin File /\ Nil \notin Writing /\ Nil \notin Reading

-----------------------------------------------------------------------------
(* The permissions screen (^p), which ends in a save and a new process.    *)

\* A predicate is tried with "r" in place of a boolean, which Lua takes for true.
Loads(b) == Answer[b].write # "malformed"
Tried(b) == Answer[b].write

permissions_mode(p) ==
    /\ screen[p] = "app"
    /\ screen' = [screen EXCEPT ![p] = "permissions"]
    /\ UNCHANGED <<config, perms, predicate, copied, kept, overtaken, filevars>>

\* What the screen says of the predicate. Every mode it is tried with is a string, so that it answers as for a write.
characterize(p) ==
    LET body == perms[p].body
    IN CASE Tried(predicate[p]) \notin {"yes", "no"} -> "errors"
         [] body = Default -> "rejects"
         [] body = Permissive -> "allows"
         [] OTHER -> IF Tried(predicate[p]) = "yes" THEN "mayAllow" ELSE "mayReject"

\* And of the app: what it can get at, and whether that can leave the computer.
risk(p) ==
    LET safe == perms[p].body = Default
        net == perms[p].net
    IN CASE perms[p].ask -> IF net THEN "asksNetwork" ELSE "asks"
         [] ~perms[p].ask /\ safe /\ ~net -> "safe"
         [] ~perms[p].ask /\ ~safe /\ ~net -> "files"
         [] ~perms[p].ask /\ safe /\ net -> "network"
         [] OTHER -> IF perms[p].body = Permissive THEN "unprotected" ELSE "unknown"

Toggle(p, key, field) ==
    /\ screen[p] = "permissions" /\ key \in Keys[p]
    /\ perms' = [perms EXCEPT ![p][field] = ~@]
    /\ UNCHANGED <<config, predicate, screen, copied, kept, overtaken, filevars>>

EditPredicate(p) ==
    /\ screen[p] = "permissions" /\ "^f" \in Keys[p] /\ ~perms[p].ask
    /\ screen' = [screen EXCEPT ![p] = "editor"]
    /\ UNCHANGED <<config, perms, predicate, copied, kept, overtaken, filevars>>

InUse(linked, writing, reading) ==
    {linked[path] : path \in Paths} \cup
    {writing[w].file : w \in {v \in Writer : writing[v] # Nil}} \cup
    (IF reading = Nil THEN {} ELSE {reading.file})

\* A file that is neither linked nor open is gone.
Reclaim(contents) ==
    data' = [file \in File |-> IF file \in InUse(disk', writers', reader') THEN contents[file] ELSE <<>>]

\* The statics go with the process, and what it had open.
ProcessEnds(p) ==
    /\ screen' = [screen EXCEPT ![p] = "off"]
    /\ perms' = [perms EXCEPT ![p] = Initially]
    /\ predicate' = [predicate EXCEPT ![p] = Default]
    /\ writers' = IF p = App THEN [w \in Writer |-> Nil] ELSE writers
    /\ reader' = IF p = App THEN Nil ELSE reader
    /\ UNCHANGED <<disk, closed>>
    /\ Reclaim(data)

\* What an editor leaves: the user stays in it until a predicate answers. One
\* that answers nothing ends the process, for the nil it leaves on the stack.
LeaveEditor(p, b) ==
    /\ screen[p] = "editor"
    /\ IF Tried(b) = "nothing" THEN ProcessEnds(p) /\ UNCHANGED copied
       ELSE /\ predicate' = IF Loads(b) THEN [predicate EXCEPT ![p] = b] ELSE predicate
            /\ IF Tried(b) \in {"yes", "no"}
               THEN /\ perms' = [perms EXCEPT ![p].body = b]
                    /\ screen' = [screen EXCEPT ![p] = "permissions"]
               ELSE UNCHANGED <<perms, screen>>
            /\ UNCHANGED <<copied, filevars>>
    /\ UNCHANGED <<config, kept, overtaken>>

\* Mutant: the copy does not leave out this image's own entry.
OthersAll(entries, p) == entries

Others(entries, p) == [entries EXCEPT ![p] = <<>>]

\* save_permissions_to_user_configuration(): the file is read, then replaced.
\* A copy knows what its entries meant, and which were replaced since (stale).
SaveReads(p) ==
    /\ screen[p] = "permissions"
    /\ copied' = [copied EXCEPT ![p] = [entries |-> Others(config, p), was |-> kept, stale |-> {}]]
    /\ screen' = [screen EXCEPT ![p] = "copied"]
    /\ UNCHANGED <<config, perms, predicate, kept, overtaken, filevars>>

\* What is left of the other images' permissions by a save that writes the
\* entries of some, for those that saved after it had read, what they were then.
Survive(p, through) ==
    [q \in Image |-> IF q \notin through THEN Initially
                     ELSE IF q \in copied[p].stale THEN copied[p].was[q] ELSE kept[q]]

\* The configuration is replaced; the other copies are out of date for the images in `changed'.
Replace(p, entries, means, changed) ==
    /\ screen[p] = "copied"
    /\ config' = entries
    /\ kept' = means
    /\ overtaken' = {q \in Image \ {p} : q \in overtaken \/ means[q] # kept[q]}
    /\ copied' = [q \in Image |->
                    IF q = p \/ screen[q] # "copied" THEN Nil
                    ELSE [copied[q] EXCEPT !.stale = @ \cup changed]]
    /\ ProcessEnds(p)

SaveReplaces(p) ==
    Replace(p, [copied[p].entries EXCEPT ![p] = Append(@, perms[p])],
            [Survive(p, Image) EXCEPT ![p] = perms[p]], copied[p].stale \cup {p})

\* The disk is full: the file that replaces the configuration ends after the entries of the images in `through'.
SaveIsCut(p) ==
    \E through \in SUBSET (Image \ {p}) :
        Replace(p, [q \in Image |-> IF q \in through THEN copied[p].entries[q] ELSE <<>>],
                Survive(p, through), Image)

\* mkstemp() fails in the current directory, or the rename() from there to the home directory, which nobody checks.
SaveFails(p) ==
    /\ screen[p] = "copied" /\ ProcessEnds(p)
    /\ copied' = [copied EXCEPT ![p] = Nil]
    /\ UNCHANGED <<config, kept, overtaken>>

\* A new process, by execv() or by the user: the entries of this image in
\* turn. A predicate that fails ends it, unless with nil.
load_permissions(p) ==
    LET loaded == IF config[p] = <<>> THEN Initially ELSE Last(config[p])
    IN /\ screen[p] = "off"
       /\ Loads(loaded.body) /\ Tried(loaded.body) # "error"
       /\ perms' = [perms EXCEPT ![p] = loaded]
       /\ predicate' = [predicate EXCEPT ![p] = loaded.body]
       /\ screen' = [screen EXCEPT ![p] = "app"]
       /\ overtaken' = overtaken \ {p}
       /\ UNCHANGED <<config, copied, kept, filevars>>

\* ^c, or a signal: the temporary files stay.
Kill(p) ==
    /\ screen[p] # "off" /\ ProcessEnds(p)
    /\ copied' = [copied EXCEPT ![p] = Nil]
    /\ UNCHANGED <<config, kept, overtaken>>

-----------------------------------------------------------------------------
(* The App's own file operations. Temporary names are always permitted.    *)

\* file_operation_permitted(): the user is asked, or the predicate.
Verdicts(write) ==
    IF perms[App].ask THEN {"yes", "no"}
    ELSE {IF write THEN Answer[predicate[App]].write ELSE Answer[predicate[App]].read}

\* An answer that is not a boolean ends the process.
Permitted(write) == "yes" \in Verdicts(write)
Denied(write) == "no" \in Verdicts(write)

FailedPermission ==
    /\ screen[App] = "app"
    /\ Verdicts(TRUE) \cup Verdicts(FALSE) \subseteq {"error", "nothing"}
    /\ ProcessEnds(App)
    /\ UNCHANGED <<config, copied, kept, overtaken>>

Unused == File \ InUse(disk, writers, reader)

\* Mutant: the name is taken whether it exists or not.
temporary_filenameFirst(name) == Temp(name, 1)

temporary_filename_in_same_volume(name) ==
    Temp(name, Min({i \in 1..MaxTemp : disk[Temp(name, i)] = Nil}))

Creates(path, file) ==
    /\ IF disk[path] # Nil THEN file = disk[path]
       ELSE file \in Unused /\ \A f \in Unused : file <= f
    /\ disk' = [disk EXCEPT ![path] = file]
    /\ data' = [data EXCEPT ![file] = <<>>]

start_writing(w, name) ==
    /\ screen[App] = "app" /\ writers[w] = Nil
    /\ \E i \in 1..MaxTemp : disk[Temp(name, i)] = Nil
    /\ LET temp == temporary_filename_in_same_volume(name)
       IN \E file \in File :
             /\ Creates(temp, file)
             /\ \/ writers' = [writers EXCEPT ![w] =
                                 [name |-> name, temp |-> temp, file |-> file, at |-> 0,
                                  text |-> [wrote |-> <<>>, failed |-> FALSE]]]
                \/ UNCHANGED writers    \* it is there, but does not open again
    /\ UNCHANGED <<permvars, reader, closed>>

\* A write that fails is reported to the app, which may go on.
write(w) ==
    /\ screen[App] = "app" /\ writers[w] # Nil /\ Len(writers[w].text.wrote) < MaxWrites
    /\ LET at == writers[w].at
           f == writers[w].file
       IN \/ /\ data' = [data EXCEPT ![f] =
                            SubSeq(@, 1, Min({at, Len(@)})) \o <<w>> \o SubSeq(@, at + 2, Len(@))]
             /\ writers' = [writers EXCEPT ![w].at = at + 1, ![w].text.wrote = Append(@, w)]
          \/ /\ UNCHANGED data
             /\ writers' = [writers EXCEPT ![w].text = [wrote |-> Append(@.wrote, w), failed |-> TRUE]]
    /\ UNCHANGED <<permvars, disk, reader, closed>>

os_rename(from, to) ==
    IF disk[from] = Nil THEN disk
    ELSE [disk EXCEPT ![to] = disk[from], ![from] = Nil]

\* What of a stream's text its file has got when no more than n writes could be flushed.
Flushed(w, n) ==
    IF n < Len(data[writers[w].file]) THEN [writers[w].text EXCEPT !.failed = TRUE] ELSE writers[w].text

\* close() looks neither at what outfile:close() returns nor at what os.rename() does.
close(w) ==
    /\ screen[App] = "app" /\ writers[w] # Nil
    /\ Permitted(TRUE) \/ Denied(TRUE)
    /\ writers' = [writers EXCEPT ![w] = Nil]
    /\ UNCHANGED <<permvars, reader>>
    /\ \E n \in 0..Len(data[writers[w].file]) :
         /\ \/ /\ Permitted(TRUE)
               /\ disk' = os_rename(writers[w].temp, writers[w].name)
               /\ closed' = [closed EXCEPT ![writers[w].name] = Flushed(w, n)]
            \/ UNCHANGED <<disk, closed>>    \* refused, or it fails
         /\ Reclaim([data EXCEPT ![writers[w].file] = SubSeq(@, 1, n)])

\* io_open() for reading, until a read finds the end; a file that is open stays as it is when another
\* takes its name.
start_reading(name) ==
    /\ screen[App] = "app" /\ reader = Nil
    /\ Permitted(FALSE) /\ disk[name] # Nil
    /\ reader' = [file |-> disk[name], whole |-> closed[name]]
    /\ UNCHANGED <<permvars, disk, data, writers, closed>>

read ==
    /\ screen[App] = "app" /\ reader # Nil
    /\ reader' = Nil
    /\ UNCHANGED <<permvars, disk, writers, closed>>
    /\ Reclaim(data)

os_remove(name) ==
    /\ screen[App] = "app" /\ disk[name] # Nil
    /\ Permitted(TRUE)
    /\ disk' = [disk EXCEPT ![name] = Nil]
    /\ closed' = [closed EXCEPT ![name] = Nil]
    /\ UNCHANGED <<permvars, writers, reader>>
    /\ Reclaim(data)

-----------------------------------------------------------------------------
\* The user may have written the App's entry by hand.
OwnEntries ==
    {<<>>} \cup {<<[body |-> b, ask |-> ask, net |-> FALSE]>> : b \in Body, ask \in BOOLEAN}

FilesInit ==
    /\ \E own \in OwnEntries : config = [p \in Image |-> IF p = App THEN own ELSE <<>>]
    /\ perms = [p \in Image |-> Initially]
    /\ predicate = [p \in Image |-> Default]
    /\ screen = [p \in Image |-> "off"]
    /\ copied = [p \in Image |-> Nil]
    /\ kept = [p \in Image |-> IF config[p] = <<>> THEN Initially ELSE config[p][1]]
    /\ overtaken = {}
    /\ disk = [path \in Paths |-> Nil]
    /\ data = [file \in File |-> <<>>]
    /\ writers = [w \in Writer |-> Nil]
    /\ reader = Nil
    /\ closed = [name \in Name |-> Nil]

FilesNext ==
    \/ \E p \in Image :
          \/ permissions_mode(p) \/ Toggle(p, "^a", "ask") \/ Toggle(p, "^n", "net")
          \/ EditPredicate(p) \/ SaveReads(p) \/ SaveReplaces(p)
          \/ SaveIsCut(p) \/ SaveFails(p)
          \/ load_permissions(p) \/ Kill(p)
          \/ \E b \in Body : LeaveEditor(p, b)
    \/ FailedPermission \/ read
    \/ \E w \in Writer : write(w) \/ close(w) \/ \E name \in Name : start_writing(w, name)
    \/ \E name \in Name : start_reading(name) \/ os_remove(name)

FilesSpec == FilesInit /\ [][FilesNext]_vars

-----------------------------------------------------------------------------
(* Properties *)

\* An app runs under the permissions its user saved last, and the entry of
\* every image outlives the saves of the others (teliva.c:1697), edits that were
\* given up and kills at any point. What a save can do to other images: one that
\* saved while it was saving is back at the permissions it had before, and those
\* after the end of a file that was cut are back at the default. A save whose
\* rename fails is as none. A process that runs keeps what it began with. What
\* the permissions screen says for certain is so of the predicate that is in use
\* (teliva.c:1435).
PermissionsKept ==
    \A p \in Image :
        /\ screen[p] = "app" => predicate[p] = perms[p].body /\ (p \notin overtaken => perms[p] = kept[p])
        /\ kept[p] # Initially => config[p] # <<>>
        /\ \A i \in 1..Len(config[p]) : config[p][i] = kept[p]
        /\ screen[p] = "permissions" =>
             /\ characterize(p) = "rejects" \/ risk(p) \in {"safe", "network"} =>
                  Answer[predicate[p]] = [read |-> "no", write |-> "no"]
             /\ risk(p) \in {"safe", "files", "asks"} => ~perms[p].net

\* A file that has a text, or a part of it if some could not be written.
Has(contents, text) ==
    IF text.failed
    THEN /\ Len(contents) <= Len(text.wrote)
         /\ \A i \in 1..Len(contents) : \E j \in 1..Len(text.wrote) : contents[i] = text.wrote[j]
    ELSE contents = text.wrote

\* A name never stands for a part of a file, unless writing or flushing it
\* failed: under it is all that was written to the last stream closed, for any
\* number of streams of one app, renames that are refused or fail, and processes
\* that end; after a failure it is a part of that one stream. One who reads gets
\* the whole of what was there when it began (file.lua:72).
WholeFiles ==
    /\ \A name \in Name : IF disk[name] = Nil THEN closed[name] = Nil
                          ELSE Has(data[disk[name]], closed[name])
    /\ reader # Nil => Has(data[reader.file], reader.whole)
=============================================================================
