---------------------------- MODULE SheetExport ----------------------------
(***************************************************************************)
(* The export of Excel workbooks to the JSON files that game_config loads  *)
(* (util/config.go).  A workbook that matches the MD5 recorded for it is   *)
(* not written again.  Each call is a process of its own: what it shares   *)
(* with the next one are the workbooks, the JSON files and config.md5.     *)
(*                                                                         *)
(* A disk d is [book, json, md5, go, cs, tainted]: revision of each        *)
(* workbook, revision each JSON file was written from (0 for none or half  *)
(* written), the recorded digests (a digest is the revision), the          *)
(* workbooks whose struct is in conf_struct.go and in AllConfig.cs, and,   *)
(* as history, those whose JSON was last written from something else than  *)
(* its digest tells.  An export x also has its    *)
(* cache of digests (cacheMd5File), the structs parsed (rs), and up, until *)
(* a panic.  What goes on around it is e = [before, edit, fails, panics]:  *)
(* workbooks saved before it, how each is saved meanwhile, the JSON files  *)
(* that cannot be written, and where it panics.                            *)
(***************************************************************************)
EXTENDS Naturals, Sequences, SequencesExt

Books == <<"a", "b">>       \* in the order of GetFileList
Book == {"a", "b"}

Empty == [book |-> [f \in Book |-> 1], json |-> [f \in Book |-> 0],
          md5 |-> [f \in Book |-> 0], go |-> {}, cs |-> {}, tainted |-> {}]

Saved(x, f) == [x EXCEPT !.book[f] = @ + 1]

\* A JSON file: O_TRUNC, then the text.  An error is printed, no more.
Output(x, f, rev, e) ==
    [x EXCEPT !.json[f] = IF f \in e.fails THEN 0 ELSE rev,
              !.tainted = IF f \in e.fails \/ rev # x.cache[f] THEN @ \union {f} ELSE @ \ {f}]

\* Mutant of CheckMatchMd5: the digest is recorded at once.
RecordAtOnce(x, f) == [x EXCEPT !.same = @ \/ x.cache[f] = x.book[f],
                                !.cache[f] = x.book[f], !.md5[f] = x.book[f]]

\* The digest of the file that now has this name.
CheckMatchMd5(x, f) == [x EXCEPT !.same = x.cache[f] = x.book[f], !.cache[f] = x.book[f]]

\* parseFile opens the workbook, takes the digest by name, and reads what it
\* opened: a file that a save replaced meanwhile is read as it was, a file
\* that a save rewrote is read as it is.
ParseFile(x, f, e) ==
    IF ~x.up \/ e.panics = f THEN [x EXCEPT !.up = FALSE]
    ELSE LET opened == x.book[f]
             early == IF e.edit[f] = "replaced" THEN Saved(x, f) ELSE x
             checked == CheckMatchMd5(early, f)
             late == IF e.edit[f] = "rewritten" THEN Saved(checked, f) ELSE checked
             rev == IF e.edit[f] = "replaced" THEN opened ELSE late.book[f]
         IN [(IF late.same THEN late ELSE Output(late, f, rev, e)) EXCEPT !.rs = @ \union {f}]

\* conf_struct.go is made anew from the structs of every workbook.  A template
\* that fails leaves half a file and panics.
ToGolang(x, e) ==
    IF e.panics = "go" THEN [x EXCEPT !.go = {}, !.up = FALSE] ELSE [x EXCEPT !.go = x.rs]

\* AllConfig.cs likewise, in either of its two forms.
ToUnity(x, e) ==
    IF e.panics = "cs" THEN [x EXCEPT !.cs = {}, !.up = FALSE] ELSE [x EXCEPT !.cs = x.rs]

SaveMd5File(x) == [x EXCEPT !.md5 = x.cache]

\* loadMd5File gives the cache its first content.
LoadMd5File(d) ==
    [book |-> d.book, json |-> d.json, md5 |-> d.md5, go |-> d.go, cs |-> d.cs,
     tainted |-> d.tainted, cache |-> d.md5, rs |-> {}, up |-> TRUE, same |-> FALSE]

ExcelExport(d, e) ==
    LET parsed == FoldLeft(LAMBDA x, f : ParseFile(x, f, e), LoadMd5File(d), Books)
        typed == IF parsed.up THEN ToGolang(parsed, e) ELSE parsed
        both == IF typed.up THEN ToUnity(typed, e) ELSE typed
    IN IF both.up THEN SaveMd5File(both) ELSE both

\* The saves before an export, then the export.
Round(d, e) ==
    ExcelExport([d EXCEPT !.book = [f \in Book |-> IF f \in e.before THEN @[f] + 1 ELSE @[f]]], e)
=============================================================================
