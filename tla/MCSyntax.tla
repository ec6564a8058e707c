------------------------------- MODULE MCSyntax -------------------------------
(***************************************************************************)
(* The parser on a corpus of small files.                                  *)
(***************************************************************************)
EXTENDS SyntaxSession

MCDecimal     == {"1", "2", "5"}
MCPrefixed    == {"0x1", "1u8"}
MCMalformed   == {"1z"}
MCVersions    == {"V1"}
MCIdentifiers == {"a", "b", "c", "e", "f", "g", "m", "t", "x", "y", "self", "super",
                  "V1", "V2", "C", "skips", "D", "final", "union"}

\* Every production of the grammar is used by a file of the corpus.
MCCorpus == <<
  <<"mod","m",";","import","a","::","b",",","c","::","_",";","aka","x","=","1",";">>,
  <<"pub","{","def","f","(","x",":","t","=","1",",","mut","y",":","t","...",")","->","t",
    "throws","e",",","g","{","}","}","prv","static","x",":","t","=","1",";">>,
  <<"__version","V1","{","def","f","(",")",";","}","else","{","def","}">>,
  <<"__version","V2","{","x","def","}","else","{","pub","def","f","(",")",";","}">>,
  <<"extern","(","C",",","a",")","{","def","f","(",")",";","}","extern","def","g","(",")",";">>,
  <<"macro","m","{","pub","{","self","(","\"","a","\"","x","=","\"","b","\"",")","skips","(",
    "\"","a","\"",")","{","b","{","c","}","}","}","def","f","(","(","\"","a","\"","|","x","=",
    "y",")","*",")",";","import","a",";","}">>,
  <<"macro","m","{","__version","V1","{","pub","def","f","(","\"","a","\"",")","{","}","}","}">>,
  <<"class","if","x","@","final","c","{","t","}","over","y","{","pub","let","mut","x",":","t",";",
    "prv","{","def","f","(","self",")",";","}","impl","e",",","g",";","}">>,
  <<"class","@","{","final",",","a","}","c","{","pub","self","x","(","y",":","t",")","with",
    "super","(","y",")",",","b","=","1","throws","e","{","}","__dtor","(","mut","self",")","{",
    "}","cte","if","x","{","over","f","(","self",",","y",":","t",")","{","}","}","else","{","}","}">>,
  <<"trait","t","{","pub","{","def","f","(","self",")",";","}","cte","assert","(","x",",","y",")",
    ";","__version","V1","{","}","}","class","c","{","impl","t","{","}","}">>,
  <<"enum",":","t","|","a","=","1","|","b","->","e",";","struct","@","union","|","x",":","t","=",
    "1","->","a","{","t","}",";">>,
  <<"static","x","=","1",";","mod","m","{","t",":","c",",","x","over","y",",","f","...",",","class","g",",","e","=","1",
    "}","{","pub","def","f","(",")",";","}">>,
  <<"def","f","(",")","->","t","1","+","x","*","(","2","-","y",")","==","a",".","b","(","c","->",
    "1",",","x",")","[","1","]","&&","x","!","of","y">>,
  <<"def","f","(",")","{","let","x","=","1",".","5",",","mut","y",":","t","=","\"","a"," ","b",
    "\"",";","let","(","a",",","_",":","t",",","b","...",")","=","x",";","}">>,
  <<"def","f","(",")","{","if","x","{","}","else","if","y","1",";","else","{","}","while","x","{",
    "break","1","}","do","{","}","while","x",";","loop","{","}","}">>,
  <<"def","f","(",")","{","for","x",",","mut","y","in","a","{","}","for","(","x","in","b",")",
    "c",";","return","x","}","catch","{","x",":","t","=>","1",";","}","exit","=>","{","}">>,
  <<"def","f","(",")","match","x","{","1","..","2","=>","a",";","y",":","_","=>","{","}",";",
    "a","::","c","(","x",",","_",")","=>","b",";","(","x",",","y",")","=>","1",";","x","->","[",
    "1","]","=>","1",";","_","=>","1",";","}">>,
  <<"def","f","(",")","{","assert","(","x",",","y",")",";","throw","x",";","__pragma","!","x","(",
    "a",",","b",")",";","with","x","=","1",",","y","=","a","{","}","atomic","(","x",")","{","}",
    "atomic","{","}","}">>,
  <<"def","f","(",")","{","cast","!","{","t","}","(","x",")",";","is","!","{","x","}","{","t","of",
    "c","}",";","a","::","b","!","t","(","1",")",";","x",".","f","!","{","t",",","2","}","(",")",
    ";","typeof","(","x",")",";","copy","x",";","}">>,
  <<"def","f","(",")","{","|","x",",","_","|","=>","x",";","||","1",";","fn","(","t",",","t",")",
    "->","t",";","dg","|","t","|","->","t",";","[","1",",","2","]",";","[","t",";","2","]",";",
    "[","t",";","new","x","]",";","[","]",";","}">>,
  <<"def","f","(",")","{","(","1",",",")",";","(",")",";","(","x",",","y",")",";","mut","x",";",
    "-","x","?",";","'","a","'",";","$",";","null",";",".","5",";","1u8",";","0x1",";","}">>,
  <<"def","f","(",")","{","m","#{","{","a","}","}",";","m","#(","1",")",";","m",
    "#[","]",";","__version","V1","{","}","else","{","}","__version","V2","{","}","}">>
>>

\* A brace that closes too much, and the operator that may follow "!".
MCPut     == {"}", "of"}
MCFillers == {<<"/*", "c", "*/">>, <<" ", "//", "c", "\n">>}
=============================================================================
