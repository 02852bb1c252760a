-------------------------- MODULE MCReviewComments --------------------------
(* Two jobs and two batches: comments on lines of which one is a part of the  *)
(* other, with one that lacks its text, and one whose line is sent as a       *)
(* string; and merge requests that outgrow a page.                            *)
EXTENDS ReviewComments

CONSTANTS j1, j2

Item(f, l, t, q) == [file |-> f, line |-> l, text |-> t, quoted |-> q]
A == Item("a.go", "4", "leak", FALSE)
B == Item("a.go", "42", "race", FALSE)
BatchSet == {<<A, B, Item("a.go", "42", "", FALSE)>>, <<Item("b.go", "7", "leak", TRUE)>>}

\* "4" is a part of "42".
Substrings == [s \in {"a.go", "b.go", "0", "4", "42", "7", "leak", "race", "body", ""} |->
  {"", s} \cup (IF s = "42" THEN {"4"} ELSE {})]

InDiff == {[file |-> "a.go", line |-> "4"], [file |-> "a.go", line |-> "42"]}
Others == {[file |-> "a.go", line |-> "4", text |-> "leak"]}

Known == [project |-> TRUE, number |-> "1", ref |-> ""]
FromRef == [project |-> TRUE, number |-> "", ref |-> "refs/pull/1/merge"]
Inline(platform, api, form, timeout) ==
  [platform |-> platform, dedup |-> TRUE, api |-> api, form |-> form, op |-> "inline",
   env |-> Known, timeout |-> timeout]
SettingSet ==
  {Inline("gitlab", "discussions", "text", FALSE), Inline("gitlab", "notes", "jsonList", TRUE),
   Inline("github", "notes", "text", FALSE), Inline("github", "notes", "jsonString", FALSE),
   Inline("github", "notes", "jsonList", TRUE)}
  \cup {[Inline(p, "notes", "text", FALSE) EXCEPT !.dedup = FALSE] : p \in {"gitlab", "github"}}
  \cup {[Inline(p, "notes", "other", p = "github") EXCEPT !.op = op] :
          p \in {"gitlab", "github"}, op \in {"inline", "comment", "get_files_changed", "unknown"}}
  \cup {[Inline("gitlab", "notes", "text", FALSE) EXCEPT !.op = "get_user_info", !.env.project = FALSE],
        [Inline("github", "notes", "text", FALSE) EXCEPT !.env = FromRef]}
=============================================================================
