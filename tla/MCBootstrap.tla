----------------------------- MODULE MCBootstrap -----------------------------
(***************************************************************************)
(* The template with one file of each kind that matters to the command,    *)
(* and command lines that differ in what they keep of it.                  *)
(***************************************************************************)
EXTENDS Bootstrap

MCFiles == <<"CODE_OF_CONDUCT.md", "LICENSE", "SECURITY.md", "go.mod", "logo.png", "main.go">>

MCKind == [f \in Range(MCFiles) |-> IF f = "logo.png" THEN "binary" ELSE "text"]

MCMentions ==
  "CODE_OF_CONDUCT.md" :> <<"<handle>", "<url>", " ", "<email>">> @@
  "LICENSE"     :> <<"Copyright (c) 2023 ", "<author>", "\n">> @@
  "SECURITY.md" :> <<"<email>">> @@
  "go.mod"      :> <<"module ", "<module>", "\n">> @@
  "logo.png"    :> <<"<slug>">> @@
  "main.go"     :> <<"<title>", " ", "<slug>", " ", "<owner>", " ", "clean", " ", "<module>", "/", "internal">>

Slash == <<"/">>
OldSlug == <<"go", "-", "clean", "-", "architecture">>
GitHub(owner, slug) == <<"github.com">> \o Slash \o owner \o Slash \o slug

MCTemplate ==
  [module |-> GitHub(<<"ajackti">>, OldSlug), slug |-> OldSlug, owner |-> <<"ajackti">>,
   plain |-> <<"ajackti">>, author |-> <<"trong", " ", "dang">>,
   email |-> <<"trong", "@", "gmail.com">>]

MCUpper ==
  [w \in {"go", "clean", "architecture", "orders", "api", "my", "acme", "ajackti", "trong",
          "dang", "team", "v2"} |->
     CASE w = "go" -> "Go" [] w = "clean" -> "Clean" [] w = "architecture" -> "Architecture"
       [] w = "orders" -> "Orders" [] w = "api" -> "Api" [] w = "my" -> "My" [] OTHER -> w]

MCDomains == {"github.com", "gmail.com", "acme.example"}

Line(module, slug) ==
  [module |-> module, slug |-> slug, owner |-> <<>>, author |-> <<"acme", " ", "team">>,
   email |-> <<"team", "@", "acme.example">>, dryRun |-> FALSE, force |-> FALSE]

Acme(slug) == GitHub(<<"acme">>, slug)

Orders == <<"orders">>

\* The example of the README; a slug that contains the old one; a slug that is
\* not the module's; a major version; the template's own owner and address.
Good ==
  {Line(Acme(Orders), Orders),
   [Line(Acme(<<"my", "-">> \o OldSlug), <<"my", "-">> \o OldSlug) EXCEPT !.author = <<>>],
   Line(Acme(Orders), Orders \o <<"-", "api">>),
   Line(Acme(Orders \o Slash \o <<"v2">>), Orders),
   [Line(GitHub(<<"ajackti">>, Orders), Orders) EXCEPT !.email = MCTemplate.email],
   [Line(<<"acme.example">> \o Slash \o Orders, Orders) EXCEPT !.owner = <<"acme">>]}

\* No owner to infer, no address, no slug, an owner GitHub does not allow.
Bad ==
  {Line(<<"acme.example">> \o Slash \o Orders, Orders),
   [Line(Acme(Orders), Orders) EXCEPT !.email = <<>>],
   Line(Acme(Orders), <<>>),
   Line(GitHub(<<"acme", "_">>, Orders), Orders)}

MCGoal == Line(Acme(Orders), Orders)

Split == Line(Acme(Orders), Orders \o <<"-", "api">>)

\* The way back to the template.
Back ==
  [Line(MCTemplate.module, OldSlug) EXCEPT !.author = MCTemplate.author, !.email = MCTemplate.email]

MCOptions ==
  Bad \cup Good
  \cup {[MCGoal EXCEPT !.dryRun = TRUE], [Split EXCEPT !.dryRun = TRUE], [MCGoal EXCEPT !.force = TRUE],
        Back, [Back EXCEPT !.force = TRUE]}
=============================================================================
