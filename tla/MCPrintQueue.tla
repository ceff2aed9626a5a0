----------------------------- MODULE MCPrintQueue -----------------------------
(* Two printers: one whose PPD may be replaced by one that has less, and   *)
(* one with two options for its qualities.                                 *)
EXTENDS PrintQueue

MCPrinter == {"p", "q"}
MCNoPrinter == "none"
MCQualityOptions == <<"Quality", "HPPrintQuality">>
MCColor == {"", "Gray", "RGB"}
MCNoColor == ""
MCName == {"", "draft", "best"}
MCNoQuality == [option |-> "", name |-> ""]
Rich == [colors |-> <<"Gray", "RGB">>, color |-> "RGB",
         names |-> [Quality |-> <<"draft">>, HPPrintQuality |-> <<"best">>],
         name |-> [Quality |-> "draft", HPPrintQuality |-> "best"],
         modes |-> <<"none", "long">>, duplex |-> "long", copies |-> 1]
Turned == [colors |-> <<"RGB", "Gray">>, color |-> "Gray",
           names |-> [Quality |-> <<"best", "draft">>, HPPrintQuality |-> <<>>],
           name |-> [Quality |-> "draft", HPPrintQuality |-> ""],
           modes |-> <<"short", "none">>, duplex |-> "none", copies |-> 1]
Plain == [colors |-> <<>>, color |-> "",
          names |-> [Quality |-> <<>>, HPPrintQuality |-> <<>>],
          name |-> [Quality |-> "", HPPrintQuality |-> ""],
          modes |-> <<>>, duplex |-> "none", copies |-> 2]
MCOptions == [choices |-> 3, changes |-> 0, jobs |-> 2, queue |-> FALSE,
              moves |-> FALSE, tests |-> {"p"}, garbage |-> {TRUE},
              fails |-> BOOLEAN]
MCLists == [choices |-> 2, changes |-> 1, jobs |-> 1, queue |-> TRUE,
            moves |-> FALSE, tests |-> {}, garbage |-> {TRUE},
            fails |-> BOOLEAN]
MCStates == [choices |-> 0, changes |-> 0, jobs |-> 2, queue |-> TRUE,
             moves |-> TRUE, tests |-> MCPrinter, garbage |-> {FALSE},
             fails |-> {FALSE}]
MCWorlds == {MCOptions, MCLists, MCStates}
MCSettings == [p |-> {Rich, Plain}, q |-> {Turned}]
===============================================================================
