------------------------------- MODULE MCRouter -------------------------------
(* Small instances of Router. *)
EXTENDS Router, TLC

CONSTANTS u, v, k, l

TwoUrls == {u, v}
TwoKinds == {k, l}
OneRefused == {l}

Stream(dir, filter, urls) == [dir |-> dir, filter |-> filter, urls |-> urls, error |-> ""]
With(spec, error) == [spec EXCEPT !.error = error]

FirstConfigs == {1 :> Stream("down", {k}, {u}) @@ 2 :> Stream("up", {k, l}, {u}),
                 1 :> With(Stream("both", {k, l}, {u}), "urls") @@ 2 :> Stream("up", {k, l}, {u})}

\* Another direction or filter, a url more, another url, a group less; and files that throw
\* at each place, before or behind a group that loads.  The first of the files below is
\* the second one above put right.
SomeConfigs ==
    FirstConfigs \cup
    { 1 :> Stream("both", {k, l}, {u, v}),
      2 :> Stream("up", {k, l}, {v}),
      1 :> With(Stream("up", {l}, {u}), "filter"),
      1 :> With(Stream("both", {k}, {v}), "url"),
      1 :> Stream("both", {k}, {u}) @@ 2 :> With(Stream("down", {k}, {v}), "dir") }
=============================================================================
