------------------------------- MODULE MCSh61 -------------------------------
EXTENDS Sh61, TLC

T(o) == [t |-> o]
W(k, n) == [t |-> "word", kind |-> k, name |-> n]
R(o) == [t |-> "redirect", op |-> o]
Run(n) == W("run", n)
File(n) == W("file", n)

MCPrograms ==
  ("yes" :> [found |-> TRUE, reads |-> "none", writes |-> 3, codes |-> {"ok"}])
  @@ ("cat" :> [found |-> TRUE, reads |-> "all", writes |-> 1, codes |-> {"ok"}])
  @@ ("head" :> [found |-> TRUE, reads |-> "one", writes |-> 1, codes |-> {"ok"}])
  @@ ("test" :> [found |-> TRUE, reads |-> "none", writes |-> 0, codes |-> {"ok", "bad"}])
  @@ ("nosuch" :> [found |-> FALSE, reads |-> "none", writes |-> 0, codes |-> {"ok"}])

MCScripts ==
  {<<<<Run("yes"), T("|"), Run("cat"), T("|"), Run("head")>>>>,
   <<<<Run("yes"), T("|"), Run("head")>>, <<Run("test"), T("&")>>>>,
   <<<<Run("test"), T("&"), Run("test")>>>>,
   <<<<Run("yes"), T("|"), Run("head"), T(";"), Run("test")>>>>,
   <<<<Run("test"), T("&&"), Run("test"), T("&&"), Run("test"), T(";")>>>>,
   <<<<Run("test"), T("||"), Run("test"), T("||"), Run("nosuch"), T("&"), Run("test")>>>>,
   <<<<Run("test"), T("&&"), Run("nosuch"), T("||"), Run("test")>>, <<Run("cat"), W("use", "x")>>>>,
   <<<<W("assign", "x"), T("&&"), Run("test"), R(">"), File("f")>>,
     <<Run("yes"), W("use", "x"), T("|"), W("assign", "x")>>, <<Run("test")>>>>,
   <<<<Run("cat"), T("|"), W("assign", "x")>>, <<Run("cat"), T("&")>>>>,
   <<<<Run("cat"), T("|"), Run("head"), T("&&"), Run("cat")>>>>,
   <<<<W("assign", "x"), T("&")>>, <<Run("test"), W("use", "x")>>>>,
   <<<<Run("yes"), R(">"), File("f"), T("|"), Run("cat"), R("<"), File("f"), T("||"), W("cd", "d")>>>>,
   <<<<Run("test"), R(">"), File("locked"), R(">>"), File("g"), R("2>"), File("f"), T("||"),
       Run("cat"), R("<"), File("none"), R("<"), File("g"), R("2>"), File("locked")>>>>,
   <<<<Run("cat"), R("<"), R("<"), File("none"), T("|"), Run("cat"), T("&")>>, <<T(";"), Run("test"), T("|")>>>>}
=============================================================================
