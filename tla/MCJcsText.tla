----------------------------- MODULE MCJcsText -----------------------------
EXTENDS JcsText

(* Values whose texts are easily confused. *)
Chars == {"a", "u", "\"", "\\", ","} \cup DOMAIN ShortEscape \cup DOMAIN OtherControl
           \cup {ShortEscape[c] : c \in DOMAIN ShortEscape}

Strings == {<<>>, <<"dalet">>, <<"a", "\"", ",", "\"", "a">>, <<"a", "\"", ":", "\"", "a">>}
             \cup {<<c>> : c \in Chars} \cup {<<"\\", c>> : c \in Chars}

Numbers == {Integer(i) : i \in -10..10}
             \cup {Double(n, d, e) : n \in BOOLEAN, d \in {<<1>>, <<1, 5>>, <<1, 0, 2>>}, e \in {-8, -7, -6, -1, 0, 1, 2, 20, 21}}
             \cup {Double(n, <<0>>, 0) : n \in BOOLEAN}

Few == {Str(<<"a">>), Str(<<"a", "\"", ",", "\"", "a">>), Integer(1), Double(FALSE, <<1>>, 0), Null}

Containers ==
  {Arr(<<>>), Obj({}), Arr(<<Arr(<<>>)>>), Arr(<<Arr(<<Arr(<<>>)>>)>>)}
    \cup {Arr(<<x>>) : x \in Few} \cup {Arr(<<x, y>>) : x, y \in Few}
    \cup {Obj({<<<<k>>, x>>}) : k \in {"a", "dalet"}, x \in Few}
    \cup {Obj({<<<<"dalet">>, x>>, <<<<"smiley">>, y>>}) : x, y \in Few}
    \cup {Obj({<<<<"a", "\"", ":", "\"", "a">>, Null>>})}

MCValues == {Null, Bool(TRUE), Bool(FALSE)} \cup {Str(s) : s \in Strings} \cup Numbers \cup Containers
=============================================================================
