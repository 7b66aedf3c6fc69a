--------------------------- MODULE MCCommandLine ---------------------------
(***************************************************************************)
(* Two shells over three files, one of which has two spellings. The lines   *)
(* of the first shell hold every order of the items of an extract, and     *)
(* the misuses of the tests of args.rs; those of the second are the        *)
(* commands it may run meanwhile.                                          *)
(***************************************************************************)
EXTENDS CommandLine

MCDashed ==
  {"--", "--force", "--pages", "--degrees", "--at", "--out", "--out-a", "--out-b",
   "--help", "--version", "--recursive"}
MCInline == "--pages=2-" :> <<"--pages", "2-">> @@ "--force=yes" :> <<"--force", "yes">>
MCPieces ==
  "1" :> << <<1>> >> @@ "2" :> << <<2>> >> @@ "3" :> << <<3>> >> @@ "0" :> << <<0>> >>
  @@ "2-" :> << <<2, Blank>> >> @@ "-2" :> << <<Blank, 2>> >>
  @@ "3,1-2,2" :> << <<3>>, <<1, 2>>, <<2>> >> @@ "3,1" :> << <<3>>, <<1>> >>
  @@ "5-2" :> << <<5, 2>> >> @@ "-" :> << <<Blank, Blank>> >> @@ "9" :> << <<9>> >>
  @@ "1-2-3" :> << <<1, 2, 3>> >> @@ "2,," :> << <<2>>, <<Blank>>, <<Blank>> >> @@ "" :> << >>
  @@ "90" :> << <<90>> >> @@ "-90" :> << <<Blank, 90>> >> @@ "45" :> << <<45>> >>
MCText ==
  MCDashed \cup DOMAIN MCInline \cup DOMAIN MCPieces \cup
  {"merge", "split", "rotate", "extract", "shred", "-h", "-V", "yes",
   "in", "out", "./out", "half"}

MCFileOf ==
  [t \in MCText |-> CASE t = "in" -> "in" [] t \in {"out", "./out"} -> "out" [] OTHER -> "half"]

Bag5 == <<"in", "--pages", "3,1", "--out", "out">>
Shuffles(items) ==
  {<<"extract">> \o [i \in DOMAIN items |-> items[f[i]]] :
     f \in {g \in [DOMAIN items -> DOMAIN items] : \A i, j \in DOMAIN items : g[i] = g[j] => i = j}}

SplitLine(rest) == <<"split", "in", "--at">> \o rest
MisusedLines ==
  {<< >>, <<"shred", "in">>, <<"--force", "merge", "out", "in">>,
   <<"merge", "--recursive", "out", "in">>, <<"merge", "--force", "--force", "out", "in">>,
   <<"merge", "--force=yes", "out", "in">>, <<"merge", "out">>, <<"merge", "-h">>,
   <<"merge", "--", "--help", "in">>, <<"--version", "--help">>, <<"-V">>,
   <<"extract", "in", "--pages", "5-2", "--out", "out">>,
   <<"extract", "in", "--pages", "0", "--out", "out">>,
   <<"extract", "in", "--pages", "-", "--out", "out">>,
   <<"extract", "in", "--pages", "1-2-3", "--out", "out">>,
   <<"extract", "in", "--pages", "2,,", "--out", "out">>,
   <<"extract", "in", "--pages", "", "--out", "out">>,
   <<"extract", "in", "--pages", "9", "--out", "out">>,
   <<"extract", "in", "half", "--pages", "1", "--out", "out">>,
   <<"rotate", "in", "--pages", "1", "--degrees", "45">>,
   <<"rotate", "in", "--pages", "1", "--degrees", "in">>,
   SplitLine(<<"0", "--out-a", "out", "--out-b", "half">>),
   SplitLine(<<"1", "--out-a", "out", "--out-b", "half">>),
   SplitLine(<<"9", "--out-a", "out", "--out-b", "half">>),
   SplitLine(<<"2", "--out-a", "out", "--out-b", "out">>)}

WorkingLines ==
  {<<"merge", "out", "in", "half">>, <<"merge", "--force", "--", "in", "in", "half">>,
   SplitLine(<<"2", "--out-a", "out", "--out-b", "half">>),
   SplitLine(<<"2", "--out-a", "out", "--out-b", "./out">>),
   SplitLine(<<"3", "--out-a", "in", "--out-b", "half", "--force">>),
   <<"extract", "in", "--pages=2-", "--out", "out">>,
   <<"extract", "in", "--pages", "3,1-2,2", "--out", "./out", "--force">>,
   <<"rotate", "in", "--pages", "-2", "--degrees", "-90">>,
   <<"rotate", "in", "--pages", "2-", "--degrees", "90", "--out", "out">>}

MCProcess == {"p", "q"}
MCLinesOf ==
  [p \in MCProcess |->
     IF p = "p" THEN Shuffles(Bag5) \cup MisusedLines \cup WorkingLines
     ELSE WorkingLines]

MCSheet == {"a", "b", "c"}
Of(s) == [sheet |-> s, turns |-> 0]
Three == Pdf(<<Of("a"), Of("b"), Of("c")>>, {})
Other == Pdf(<<Of("b")>>, {Of("c")})   \* saved once after a deletion
MCOriginals ==
  {("in" :> Three) @@ ("out" :> o) @@ ("half" :> h) : o \in {Missing, Other}, h \in {Missing, Other}}
  \cup {("in" :> Damaged) @@ ("out" :> Missing) @@ ("half" :> Other)}
=============================================================================
