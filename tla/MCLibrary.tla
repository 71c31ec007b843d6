----------------------------- MODULE MCLibrary -----------------------------
(***************************************************************************)
(* The library below the IPC client: arena, objects, JSON, base64,         *)
(* backoff, event-stream headers and files.  These do not share state, so  *)
(* a component moves only while the others are where they begin.           *)
(***************************************************************************)
EXTENDS Arena, ObjectProperties, Base64Calls, Backoff, EventHeaders, Files

LibraryInit ==
  /\ ArenaInit /\ JsonInit /\ VisitInit /\ Base64Init /\ BackoffInit
  /\ HeadersInit /\ FilesInit

ArenaStep ==
  /\ JsonInit /\ VisitInit /\ Base64Init /\ BackoffInit /\ HeadersInit
  /\ FilesInit
  /\ ArenaNext
  /\ UNCHANGED <<json, visitVars, base64, backoffVars, headers, fileVars>>

JsonStep ==
  /\ ArenaInit /\ VisitInit /\ Base64Init /\ BackoffInit /\ HeadersInit
  /\ FilesInit
  /\ JsonNext
  /\ UNCHANGED <<arenaVars, visitVars, base64, backoffVars, headers, fileVars>>

VisitStep ==
  /\ ArenaInit /\ JsonInit /\ Base64Init /\ BackoffInit /\ HeadersInit
  /\ FilesInit
  /\ VisitNext
  /\ UNCHANGED <<arenaVars, json, base64, backoffVars, headers, fileVars>>

Base64Step ==
  /\ ArenaInit /\ JsonInit /\ VisitInit /\ BackoffInit /\ HeadersInit
  /\ FilesInit
  /\ Base64Next
  /\ UNCHANGED <<arenaVars, json, visitVars, backoffVars, headers, fileVars>>

BackoffStep ==
  /\ ArenaInit /\ JsonInit /\ VisitInit /\ Base64Init /\ HeadersInit
  /\ FilesInit
  /\ BackoffNext
  /\ UNCHANGED <<arenaVars, json, visitVars, base64, headers, fileVars>>

HeadersStep ==
  /\ ArenaInit /\ JsonInit /\ VisitInit /\ Base64Init /\ BackoffInit
  /\ FilesInit
  /\ HeadersNext
  /\ UNCHANGED <<arenaVars, json, visitVars, base64, backoffVars, fileVars>>

FilesStep ==
  /\ ArenaInit /\ JsonInit /\ VisitInit /\ Base64Init /\ BackoffInit
  /\ HeadersInit
  /\ FilesNext
  /\ UNCHANGED <<arenaVars, json, visitVars, base64, backoffVars, headers>>

LibraryNext ==
  \/ ArenaStep \/ VisitStep \/ FilesStep \/ BackoffStep \/ Base64Step
  \/ HeadersStep \/ JsonStep

LibrarySpec ==
  LibraryInit /\ [][LibraryNext]_<<arenaVars, json, visitVars, base64, backoffVars,
                                   headers, fileVars>>

-----------------------------------------------------------------------------
Upto(S, n) == UNION {[1..k -> S] : k \in 0..n}

Joined(pieces, n) == {FlattenSeq(s) : s \in Upto(pieces, n)}

I64(n) == gg_obj_i64(n)
OutBuf(data) == gg_obj_buf("out", data)

\* Objects: every scalar; lists and maps with duplicate, empty and prefix keys,
\* in the arena and outside it; three and four levels.
MCLeaves ==
  {GG_OBJ_NULL, gg_obj_bool(TRUE), I64(0), I64(-9), I64(42), gg_obj_f64(<<49, DOT, 53>>),
   OutBuf(<<>>), gg_obj_buf("in", <<97>>), OutBuf(<<QUOTE, BACKSLASH>>),
   OutBuf(<<10, 195, 169>>)}

MCKeys == {<<>>, <<97>>, <<97, 98>>, <<98>>}

Lists(at, S, n) == {gg_obj_list(at, x) : x \in Upto(S, n)}

Maps(at, v, n) == {gg_obj_map(at, x) : x \in Upto({gg_kv("out", key, v) : key \in MCKeys}, n)}

MCFlat ==
  Lists("out", {I64(7), OutBuf(<<97>>)}, 2) \cup Lists("in", {OutBuf(<<97>>)}, 2)
  \cup Maps("out", I64(7), 3) \cup Maps("in", OutBuf(<<97>>), 1)
  \cup {gg_obj_map("out", <<gg_kv("out", <<97>>, I64(1)), gg_kv("out", <<98>>, I64(2)),
                            gg_kv("in", <<97>>, I64(3)), gg_kv("in", <<97>>, I64(4))>>)}

MCNested ==
  Lists("out", {I64(7), gg_obj_list("out", <<I64(7)>>),
                gg_obj_map("in", <<gg_kv("out", <<98>>, I64(7)),
                                   gg_kv("out", <<97>>, GG_OBJ_NULL),
                                   gg_kv("out", <<98>>, I64(8))>>)}, 2)

MCObjs == MCLeaves \cup MCFlat \cup MCNested \cup {gg_obj_list("out", <<o>>) : o \in MCNested}

\* Integers as long as the longest that json_encode_on_i64 has room for.
MCWideObjs == {I64(n) : n \in {0, 99, 100, -10, -100}}

\* Texts: structure that is right and wrong, numbers, and two strings of which
\* the first is unescaped while the second is still to be parsed.
a_key == <<QUOTE, 97, QUOTE>>
b_key == <<QUOTE, 98, QUOTE, COLON>>

MCStructure ==
  Joined({<<LBRACK>>, <<RBRACK>>, <<LBRACE>>, <<RBRACE>>, <<COMMA>>, <<COLON>>, a_key, <<49>>}, 3)

MCMembers ==
  Joined({a_key, a_key \o <<COLON, 49>>, <<COLON>>, <<COMMA>>, <<49>>, <<LBRACE>>, <<RBRACE>>, b_key,
          <<32>>}, 4)

Around(l, S, r) == {<<l>> \o s \o <<r>> : s \in S}

MCNumbers ==
  Upto({MINUS, 48, 49, DOT, 101}, 4) \cup
  {<<49, 50, 55>>, <<49, 50, 56>>, <<MINUS, 49, 50, 56>>, <<MINUS, 49, 50, 57>>,
   <<50, 53, 55>>, <<49, 50, 56, 48>>,
   <<48, DOT, 48, 48, 49>>, <<48, DOT, 48, 48, 48, 49>>, <<49, DOT, 101, 43, 49>>,
   <<48, DOT, 48, 48, 49, 101, MINUS, 49>>, <<49, 101, 57, 57>>, <<48, 101, 57, 57>>}

U(h1, h2, h3, h4) == <<BACKSLASH, 117, h1, h2, h3, h4>>

MCPieces ==
  {<<97>>, <<BACKSLASH, QUOTE>>, <<BACKSLASH, 110>>, U(48, 48, 54, 49), U(48, 48, 101, 57),
   U(68, 56, 51, 68), U(68, 69, 48, 48), <<195, 169>>, <<169>>, <<BACKSLASH>>, <<10>>}

MCStrings ==
  {<<LBRACK, QUOTE>> \o x \o <<QUOTE, COMMA, QUOTE>> \o y \o <<QUOTE, RBRACK>> :
     x \in Joined(MCPieces, 2), y \in Joined(MCPieces, 1)}

MCTexts ==
  MCStructure \cup Around(LBRACK, MCStructure, RBRACK) \cup Around(LBRACE, MCStructure, RBRACE)
  \cup Around(LBRACE, MCMembers, RBRACE) \cup MCNumbers \cup MCStrings

\* Bytes with all bits, some bits and no bits; texts of one to three segments,
\* with padding, unused bits and characters that are right and wrong.
MCBinaries == Upto({0, 1, 64, 255}, 4)

MCBase64Texts ==
  Upto({65, 66, 81, 47, PAD, 33}, 4) \cup
  Joined({<<81, 85, 70, 66>>, <<81, 81, PAD, PAD>>, <<81, 85, 69, PAD>>, <<81, 85, 70, PAD>>,
          <<PAD, 81, 81, 81>>}, 3)

MCHeaderBytes == Upto({0, 1, 4, 7}, 6)

MCHeader == {[name |-> <<1>>, type |-> EVENTSTREAM_INT32, value |-> <<0>>],
             [name |-> <<2>>, type |-> EVENTSTREAM_INT32, value |-> <<7>>],
             [name |-> <<3>>, type |-> EVENTSTREAM_INT32, value |-> <<4>>],
             [name |-> <<3>>, type |-> EVENTSTREAM_STRING, value |-> <<4>>],
             [name |-> <<>>, type |-> EVENTSTREAM_STRING, value |-> <<7, 0>>],
             [name |-> <<9, 9>>, type |-> EVENTSTREAM_STRING, value |-> <<>>]}

MCHeaderLists ==
  {hs \in Upto(MCHeader, 3) : \A j, k \in DOMAIN hs : hs[j].name = hs[k].name => j = k}

\* One and two components; empty components first, in the middle and last; names
\* that are too long first and last.
MCOpenPaths == {<<"a">>, <<"a", "", "b">>, <<"", "a">>, <<"a", "b", "">>,
                <<"long", "a">>, <<"a", "long">>}

MCOthers == {<<"a">>}

OpenerSymmetry == Permutations(Openers)
=============================================================================
