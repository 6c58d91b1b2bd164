----------------------------------- MODULE Url -----------------------------------
(***************************************************************************)
(* url.lua of luasocket: a URL is taken to pieces by patterns, and put     *)
(* together again; a relative one is resolved against a base. The patterns *)
(* are the code's, and StringMatch matches them.                           *)
(***************************************************************************)
EXTENDS Integers, SequencesExt

CONSTANT Nil
Lua == INSTANCE StringMatch

Unbounded == 100
gsub(s, pat, news) == Lua!str_gsub(s, 1, pat, <<"string", news>>, Unbounded).text
gsub1(s, pat, news) == Lua!str_gsub(s, 1, pat, <<"string", news>>, 1).text

\* The first capture of the pattern, or Nil.
captured(s, pat) ==
    LET r == Lua!str_find(s, pat)
    IN IF r.start = 0 THEN Nil ELSE SubSeq(s, r.captures[1][1], r.captures[1][2] - 1)

Given(value, Body(_)) == Body(value)

\* gsub(url, pattern, function(n) parsed[field] = n; return "" end)
move(from, pat, field) ==
    Given(captured(from.url, pat), LAMBDA found :
      [url |-> gsub(from.url, pat, <<>>),
       parsed |-> IF found = Nil THEN from.parsed ELSE [from.parsed EXCEPT ![field] = found]])
moves(url, parsed, steps) == FoldLeft(LAMBDA from, s : move(from, s[1], s[2]), [url |-> url, parsed |-> parsed], steps)

Fields == {"scheme", "authority", "userinfo", "user", "password", "host", "port",
           "path", "params", "query", "fragment"}
NoFields == [f \in Fields |-> Nil]

Scheme == <<"^", "(", "[", "%", "w", "]", "[", "%", "w", "%", "+", "%", "-", "%", ".", "]", "*", ")", "%", ":">>
Authority == <<"^", "/", "/", "(", "[", "^", "/", "]", "*", ")">>
Fragment == <<"#", "(", ".", "*", ")", "$">>
Query == <<"%", "?", "(", ".", "*", ")">>
Params == <<"%", ";", "(", ".", "*", ")">>
Userinfo == <<"^", "(", "[", "^", "@", "]", "*", ")", "@">>
Port == <<":", "(", "[", "^", ":", "%", "]", "]", "*", ")", "$">>
IPv6 == <<"^", "%", "[", "(", ".", "+", ")", "%", "]", "$">>
Password == <<":", "(", "[", "^", ":", "]", "*", ")", "$">>

parse_userinfo(parsed) ==
    Given(moves(parsed.userinfo, parsed, <<<<Password, "password">>>>), LAMBDA user : [user.parsed EXCEPT !.user = user.url])
parse_host(place) ==
    Given(captured(place.url, IPv6), LAMBDA inner :
      IF place.url = <<>> THEN place.parsed ELSE [place.parsed EXCEPT !.host = IF inner = Nil THEN place.url ELSE inner])
parse_authority(parsed) ==
    Given(parse_host(moves(parsed.authority, parsed, <<<<Userinfo, "userinfo">>, <<Port, "port">>>>)), LAMBDA at :
      IF at.userinfo = Nil THEN at ELSE parse_userinfo(at))
parse(url) ==
    LET steps == <<<<Scheme, "scheme">>, <<Authority, "authority">>, <<Fragment, "fragment">>, <<Query, "query">>, <<Params, "params">>>>
    IN IF url = <<>> THEN Nil
       ELSE Given(moves(url, NoFields, steps), LAMBDA all :
              LET parsed == IF all.url = <<>> THEN all.parsed ELSE [all.parsed EXCEPT !.path = all.url]
              IN IF parsed.authority = Nil THEN parsed ELSE parse_authority(parsed))

If(field, before, after) == IF field = Nil THEN <<>> ELSE before \o field \o after

build(parsed) ==
    LET local == If(parsed.path, <<>>, <<>>) \o If(parsed.params, <<";">>, <<>>) \o If(parsed.query, <<"?">>, <<>>)
        userinfo == IF parsed.user = Nil THEN parsed.userinfo
                    ELSE parsed.user \o If(parsed.password, <<":">>, <<>>)
        host == IF ":" \in ToSet(parsed.host) THEN <<"[">> \o parsed.host \o <<"]">> ELSE parsed.host
        authority == IF parsed.host = Nil THEN parsed.authority
                     ELSE If(userinfo, <<>>, <<"@">>) \o host \o If(parsed.port, <<":">>, <<>>)
    IN If(parsed.scheme, <<>>, <<":">>) \o If(authority, <<"/", "/">>, <<>>) \o local
       \o If(parsed.fragment, <<"#">>, <<>>)

-----------------------------------------------------------------------------
(* Dots                                                                    *)

Dots == <<"%", ".", "%", ".">>
Segment == <<"[", "^", "/", "]", "+">>
Marker == "x01"

RECURSIVE again(_, _, _)
again(path, pat, news) ==
    Given(gsub1(path, pat, news), LAMBDA next : IF next = path THEN path ELSE again(next, pat, news))

remove_dot_components(path) ==
    LET repeated == <<
          <<<<"/", "/">>, <<"/", Marker, "/">>>>,
          <<<<"/", "%", ".", "/">>, <<"/">>>>,
          <<Segment \o <<"/">> \o Dots \o <<"/", "(">> \o Segment \o <<")">>, <<"%1">>>> >>
        once == <<
          <<Segment \o <<"/">> \o Dots \o <<"/", "*", "$">>, <<>>>>,
          <<<<"/">> \o Dots \o <<"$">>, <<"/">>>>,
          <<<<"/", "%", ".", "$">>, <<"/">>>>,
          <<<<"^", "/">> \o Dots \o <<"/">>, <<"/">>>>,
          <<<<Marker>>, <<>>>> >>
    IN Given(FoldLeft(LAMBDA p, r : again(p, r[1], r[2]), path, repeated), LAMBDA plain :
         FoldLeft(LAMBDA p, r : gsub(p, r[1], r[2]), plain, once))

\* Mutant: the last segment of the base stays.
absolute_pathBeside(base_path, relative_path) ==
    remove_dot_components(
      IF relative_path # <<>> /\ relative_path[1] = "/" THEN relative_path ELSE base_path \o <<"/">> \o relative_path)

absolute_path(base_path, relative_path) ==
    remove_dot_components(
      IF relative_path # <<>> /\ relative_path[1] = "/" THEN relative_path
      ELSE Given(gsub(base_path, <<"[", "^", "/", "]", "*", "$">>, <<>>), LAMBDA dir :
             (IF dir # <<>> /\ dir[Len(dir)] = "/" THEN dir ELSE Append(dir, "/")) \o relative_path))

-----------------------------------------------------------------------------
(* Paths as segments. The characters that have an escape, and its digits.  *)

Code == [c \in {"?", "/", "%", "#"} |->
           CASE c = "?" -> <<"0", "1">> [] c = "/" -> <<"0", "2">> [] c = "%" -> <<"1", "2">> [] c = "#" -> <<"2", "2">>]

RECURSIVE unescape(_)
unescape(s) ==
    LET hex == SubSeq(s, 2, 3)
    IN IF s = <<>> THEN <<>>
       ELSE IF s[1] = "%" /\ Len(s) > 2 /\ ToSet(hex) \subseteq Lua!Digits
       THEN <<IF \E c \in DOMAIN Code : Code[c] = hex THEN CHOOSE c \in DOMAIN Code : Code[c] = hex
              ELSE "other">> \o unescape(SubSeq(s, 4, Len(s)))
       ELSE <<s[1]>> \o unescape(Tail(s))

segment_set == {"-", "_", ".", ":", "@", "&", "=", "+", "$", ","}
protect_segment(s) == FlattenSeq([i \in DOMAIN s |->
    IF s[i] \in Lua!Letters \cup Lua!Digits \cup segment_set THEN <<s[i]>> ELSE <<"%">> \o Code[s[i]]])

parse_path(path) ==
    [segments |-> LET all == Lua!gmatch_aux(path, 1, <<"(">> \o Segment \o <<")">>)
                  IN [i \in DOMAIN all |-> unescape(SubSeq(path, all[i][1][1], all[i][1][2] - 1))],
     is_absolute |-> path # <<>> /\ path[1] = "/",
     is_directory |-> path # <<>> /\ path[Len(path)] = "/"]

build_path(p) ==
    LET n == Len(p.segments)
        text == FlattenSeq([i \in 1..n |-> protect_segment(p.segments[i]) \o (IF i < n THEN <<"/">> ELSE <<>>)])
    IN (IF p.is_absolute THEN <<"/">> ELSE <<>>) \o text
       \o (IF n > 0 /\ p.is_directory THEN <<"/">> ELSE <<>>)

-----------------------------------------------------------------------------
(* What RFC 3986 says of a path: its segments, one after the other.        *)

RECURSIVE Segments(_, _)
Segments(path, seg) ==
    IF path = <<>> THEN <<seg>>
    ELSE IF Head(path) = "/" THEN <<seg>> \o Segments(Tail(path), <<>>)
    ELSE Segments(Tail(path), Append(seg, Head(path)))

Up(done) == IF Len(done) > 1 THEN SubSeq(done, 1, Len(done) - 1) ELSE done
Walk(done, segments) ==
    LET step(d, i) ==
            LET seg == segments[i]
                last == i = Len(segments)
            IN CASE seg = <<".">> -> IF last THEN Append(d, <<>>) ELSE d
                 [] seg = <<".", ".">> -> IF last THEN Append(Up(d), <<>>) ELSE Up(d)
                 [] OTHER -> Append(d, seg)
    IN FoldLeft(step, done, [i \in DOMAIN segments |-> i])
Joined(segments) == FlattenSeq([i \in DOMAIN segments |-> (IF i = 1 THEN <<>> ELSE <<"/">>) \o segments[i]])

\* The path of an absolute one, resolved.
Resolved(path) == Joined(Walk(<<<<>>>>, Tail(Segments(path, <<>>))))

\* The pieces of a URL that has a path, or no host, come back from its text
\* (url.lua:209): else the host would take the rest along. The segments of
\* a path come back from it, whatever they hold (url.lua:290, :312). A relative
\* path leads where RFC 2396 says it does (url.lua:245).
PiecesReturn(parsed) ==
    (parsed.authority = Nil \/ parsed.path # Nil) => parse(build(parsed)) = parsed
SegmentsReturn(p) == p.segments # <<>> => parse_path(build_path(p)) = p
PathResolves(base, relative) ==
    LET dir == SubSeq(base, 1, Max({i \in DOMAIN base : base[i] = "/"}))
    IN absolute_path(base, relative) = Resolved(IF relative[1] = "/" THEN relative ELSE dir \o relative)
=============================================================================
