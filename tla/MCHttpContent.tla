--------------------------- MODULE MCHttpContent ---------------------------
(***************************************************************************)
(* HttpContent with short texts of the characters that the encodings treat *)
(* in a way of their own.                                                  *)
(***************************************************************************)
EXTENDS HttpContent

a == 97
b == 98

Texts(alphabet, n) == UNION {[1..k -> alphabet] : k \in 0..n}

MCNames == {<<a>>, <<b>>}
MCContents == {<<>>, <<Percent>>}
MCBoundary == <<66>>

\* One field of up to three characters; one of any byte; a file; two fields.
MCEntries ==
  LET Entry(name, filename, type, texts) == {FieldData(name, filename, type, t) : t \in texts}
  IN  {<<e>> : e \in Entry(<<a>>, <<>>, <<>>, Texts({a, Equals, CR, LF, Dash}, 3))
                     \cup Entry(<<a>>, <<>>, <<>>, Texts(0..255, 1))
                     \cup Entry(<<a>>, <<b>>, <<PlainType>>, Texts({a, CR, LF, Dash}, 3))}
      \cup Entry(<<a>>, <<>>, <<>>, Texts({a, Percent, Ampersand, Semicolon, CR, LF}, 1))
             \X Entry(<<b>>, <<>>, <<>>, Texts({a, Space, Plus, Equals, Dash, CR, LF}, 1))

\* Session cookies of two names, cookies with a Path, of other sites and for plain
\* http, some of them over by one attribute and not by the other, and what clears
\* them, with a Path or without.
MCJars ==
  LET Placed(c) == [c EXCEPT !.path = TRUE]
      Set(name, value) == [Placed(GenerateCookie(name, value)) EXCEPT !.secure = FALSE, !.same_site = "none",
                                                                      !.expires = "later"]
      Insecure(age) == [GenerateCookie(<<a>>, <<b>>) EXCEPT !.secure = FALSE, !.expires = "past", !.max_age = age]
      cookies == {CookieClear(n) : n \in MCNames} \cup {Placed(CookieClear(<<a>>))}
                 \cup {GenerateCookie(n, <<a>>) : n \in MCNames}
                 \cup {Set(<<a>>, v) : v \in {<<>>, <<b, a>>, <<a, Equals>>, <<Equals, b>>}}
                 \cup {Insecure(1), [Insecure(-1) EXCEPT !.domain = TRUE], [Insecure(1) EXCEPT !.domain = TRUE]}
  IN  UNION {[1..k -> cookies] : k \in 0..3}

MCCredentials == Texts({a, Colon, 0}, 2)
=============================================================================
