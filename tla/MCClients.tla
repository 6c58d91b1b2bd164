------------------------------ MODULE MCClients ------------------------------
(* Responses of every shape http.lua reads, sessions of SMTP and FTP, and   *)
(* peers that go on or stop at any byte of them.                            *)
EXTENDS Clients

b1 == <<"byte", 1>>
b2 == <<"byte", 2>>
b3 == <<"byte", 3>>
SP == <<" ">>
Http(code) == <<<<"HTTP/">>, <<"status", code>>, CR, LF>>
Header(name, v) == <<<<"header", name, v>>, LF>>
Blankline == <<CR, LF>>
Size(n) == <<<<"size", n>>, LF>>
Code(code, sep) == <<<<"reply", code, sep>>, LF>>
Says(code) == Code(code, " ")

Peers(script, body, ending) ==
    [script |-> script, again |-> <<>>, body |-> body, ending |-> ending, addresses |-> <<6>>]
Forever(script, again) == [Peers(script, <<>>, "closed") EXCEPT !.again = again]
At(peer, addresses) == [peer EXCEPT !.addresses = addresses]
Counted(script, body) == Peers(script, body, "counted")
None == At(Counted(<<>>, <<>>), <<>>)

Length2 == Http(200) \o Header("content-length", 2) \o Blankline \o <<b1, b2>>
Responses ==
    {Counted(Length2, <<b1, b2>>),
     Counted(Http(200) \o Header("content-length", 3) \o Blankline \o <<b1, LF, b3>>, <<b1, LF, b3>>),
     Counted(Http(200) \o Header("transfer-encoding", "identity") \o Header("content-length", 1)
                \o <<SP, LF>> \o Blankline \o <<b2>>, <<b2>>),
     Peers(Http(200) \o Header("content-length", 1) \o Header("content-length", 1)
                \o Header("content-length", 1) \o Blankline \o <<b1, b2>>, <<b1, b2>>, "closed"),
     Counted(Http(200) \o Header("transfer-encoding", "chunked") \o Blankline
                \o Size(1) \o <<b1, LF>> \o Size(2) \o <<b2, b3, LF>> \o Size(0) \o Blankline,
             <<b1, b2, b3>>),
     Peers(Http(200) \o Header("other", 0) \o Blankline \o <<b1, b2, b3>>, <<b1, b2, b3>>, "closed"),
     Peers(<<b1, b2, LF>>, <<b1, b2, LF>>, "closed"),
     Counted(Http(100) \o Blankline \o Length2, <<b1, b2>>),
     Counted(Http(100) \o Blankline \o <<b1, LF>>, <<>>),
     Counted(Http(204) \o Header("other", 0) \o <<SP, LF>> \o Blankline \o <<b1>>, <<>>),
     Counted(Http(200) \o <<b1, LF, LF>>, <<>>),
     Counted(<<<<"HTTP/">>, b1, LF>>, <<>>)}

BadChunks ==
    {Counted(Http(200) \o encoding \o Blankline \o <<b1, LF>>, <<>>) :
        encoding \in {Header("transfer-encoding", "chunked"),
                      Header("transfer-encoding", "identity") \o Header("transfer-encoding", "identity"),
                      Header("transfer-encoding", "identity") \o <<SP, LF>>}}
Endless ==
    {Forever(Http(100), Blankline \o Http(100)),
     Forever(Http(200), Header("other", 0)),
     Forever(Http(200) \o Header("transfer-encoding", "chunked") \o Blankline \o Size(0),
             Header("other", 0))}
Moved(to) == Counted(Http(302) \o Header("location", to) \o Blankline, <<>>)
Final == Counted(Http(200) \o Header("content-length", 1) \o Blankline \o <<b1>>, <<b1>>)
Secure(peer) == [peer EXCEPT !.script = <<HELLO>> \o @]

Asks(kind, scheme, method, source) ==
    [kind |-> kind, scheme |-> scheme, method |-> method, source |-> source,
     chunked |-> FALSE, redirects |-> 0]
Get == Asks("http", "http", "GET", <<>>)
GetS == Asks("http", "https", "GET", <<>>)
Post == Asks("http", "http", "POST", <<<<b1, b2, b3>>, <<b2>>>>)
With(request, p1, p2) == [request |-> request, peers |-> <<p1, p2, None>>]

Smtp == Says(220) \o Code(250, "-") \o Code(221, " ") \o Says(250) \o Says(250) \o Says(250)
        \o Says(354) \o Says(250) \o Says(221)
Ftp(user, transfer) == Says(220) \o user \o Says(229) \o transfer \o Says(221)
Users == {Says(230), Says(331) \o Says(230)}
Data == Peers(<<b1, b2, b3>>, <<b1, b2, b3>>, "closed")

MCScenarios ==
    {With(Get, p, None) : p \in Responses \cup BadChunks \cup Endless} \cup
    {With([Post EXCEPT !.chunked = c], p, None) : c \in BOOLEAN, p \in {Counted(Length2, <<b1, b2>>), Moved("http")}} \cup
    {With(Asks("http", "http", "HEAD", <<>>), p, None) :
        p \in {Counted(Length2, <<b1, b2>>), Counted(Http(100) \o Blankline \o <<b1, LF>>, <<>>)}} \cup
    {With(GetS, p, None) : p \in {Secure(Final), Final, Secure(Moved("http")),
         Secure(Peers(Http(200) \o Blankline \o <<b1, b2>>, <<b1, b2>>, "closed"))}} \cup
    {With(Get, Moved(to), p) : to \in {"http", "relative"}, p \in {Final, Moved("http")}} \cup
    {With(Get, Moved("https"), Secure(Final)), With(GetS, Secure(Moved("https")), Secure(Final))} \cup
    {With(Get, At(Final, a), None) : a \in {<<6, 4>>, <<4, 4>>, <<>>}} \cup
    {With(Asks("smtp", "", "", <<<<b1, b2>>, <<b3>>>>), Counted(s, <<>>), None) :
        s \in {Smtp, Says(220) \o Says(550), <<b1, LF>>}} \cup
    {With(Asks("smtp", "", "", <<>>), Forever(Code(220, "-"), Code(220, "-")), None)} \cup
    {With(Asks("get", "", "", <<>>), Counted(Ftp(u, Says(150) \o Says(226)), <<>>), Data) : u \in Users} \cup
    {With(Asks("get", "", "", <<>>), Counted(Ftp(Says(230), Says(226)), <<>>), [Data EXCEPT !.ending = "reply"])} \cup
    {With(Asks("put", "", "", <<<<b1, b2>>, <<b3>>>>), Counted(Ftp(Says(230), Says(150) \o Says(226)), <<>>),
          Counted(<<>>, <<>>))}

MCConns == 1..3

=============================================================================
