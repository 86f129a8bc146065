-------------------------- MODULE MCLanguageRules ---------------------------
(* Small files of every kind. *)
EXTENDS LanguageTruth

FileKinds == {"docker", "workflow", "script", "hook", "package", "rust", "typescript",
    "tsconfig", "python", "sql", "migration", "ddl", "comments"}

FileTraits == [docker |-> {"compose", "yaml"}, workflow |-> {"workflow", "yaml"},
    script |-> {"scripts", "sh", "release"}, hook |-> {"hooks"}, package |-> {"package"},
    rust |-> {"rs"}, typescript |-> {"ts"}, tsconfig |-> {"tsconfig"}, python |-> {"py"},
    sql |-> {"sql"}, migration |-> {"sql", "db"},
    ddl |-> {"sql", "db"}, comments |-> {"said", "rs"}]

FileLines == [docker |-> 3, workflow |-> 3, script |-> 2, hook |-> 2, package |-> 3, rust |-> 4,
    typescript |-> 3, tsconfig |-> 3, python |-> 4, sql |-> 3, migration |-> 4, ddl |-> 2, comments |-> 3]

Each(marks) == {Code({m}) : m \in marks}

GitMarks == {"git reset --hard", "git clean", "git stash -u", "git stash pop",
    "git push --force", "git push origin --force", "git branch -d", "git gc --prune=now",
    "rm -rf .git", "git worktree prune", "git add .", "git commit -am", "--no-verify",
    "--no-verify;", "gh release create", "--verify-tag"}

LineVocabulary == [
    docker |-> Each({"docker.sock", "privileged", "sys_admin", "cap_add:", "ports:", "db port"})
        \cup {Code({"image:", ":latest"}), Code({"curl", "| sh"})},
    workflow |-> Each({"pull_request_target", "checkout", "pr head", "jobs:", "self-hosted",
            "continue-on-error", "security", "hook tool", "git clean"})
        \cup {Blank, Code({"permissions:", "write-all"}), Code({"uses:", "@main"}),
              Code({"gh release create"})},
    script |-> Each(GitMarks \cup {"lint-staged"})
        \cup {Blank, Code({"git clone", "token@host"}), Commented({"git add ."}, "#", {"git clean"}),
              Code({"lint-staged", "git add ."}), Code({"npm publish", "sha256"})},
    hook |-> Each(GitMarks \cup {"lint-staged", "hooksPath /dev/null"})
        \cup {Blank, Code({"cp", ".git/hooks/"}), Code({"lint-staged", "git add ."})},
    package |-> {Blank, Code({"scripts", "git add ."}), Code({"scripts", "--no-verify"}),
        Code({"lint-staged", "git add ."}), Code({"git add ."})},
    rust |-> {Blank, Code({"allow(warnings)"}), Code({"item"}), Code({"item", "pub unsafe fn"}), Code({"pub unsafe fn"}),
        Code({"unsafe {", "transmute("}), Commented({}, "///", {"# safety"}),
        Commented({}, "///", {"doc"}), Commented({}, "//", {"safety:"})},
    typescript |-> Each({"@ts-nocheck", "eval("})
        \cup {Blank, Code({" as ", "req.body"}), Code({"innerhtml =", "eval("}),
              Code({"innerhtml =", "sanitize", "eval("}), Code({"exec(", "command", "${"})},
    tsconfig |-> Each({"strict: false", "strict:false", "strictNullChecks: false",
            "noEmitOnError: false", "skipLibCheck: true"}) \cup {Blank},
    python |-> {<<>>, <<"eval(">>, <<"#", "eval(">>, <<"pickle.load", "#">>,
        <<TripleDouble>>, <<TripleSingle>>, <<TripleDouble, "eval(", TripleDouble>>,
        <<"verify=false", TripleSingle, "eval(">>, <<"eval(", TripleDouble, "#">>,
        <<TripleDouble, "os.system(">>, <<"#", TripleDouble>>},
    sql |-> {<<"update", "t", "set", "t", ";">>, <<"update", "t", "set", "t">>, <<"set", "t", ";">>,
        <<"delete from", "t">>, <<"where", "t", ";">>, <<"update", "t", "set", "t", "where", "t", ";">>,
        <<"execute", "select", "t", "||">>, <<"--", "update", "t", "set", "t">>, <<";">>, <<>>,
        <<"update", "t">>, <<"update", "t", "set">>, <<"delete from", "t", "where">>,
        <<"delete from", ";">>},
    migration |-> {<<"drop table", ";">>, <<"update", "t", "set", "t">>, <<"where", "t", ";">>, <<"/*">>,
        <<"*/", "truncate table", ";">>, <<"--", "drop table">>, <<"--", "$$">>,
        <<"create function", "$$", "drop table">>, <<"$$">>, <<"$$", ";">>,
        <<"$$", "truncate table", "$$">>},
    ddl |-> {<<"drop table", "t", "cascade", ";">>, <<"alter table", "t", "drop column", ";">>,
        <<"truncate table", "t", ";">>, <<"alter table", "t", "add column", ";">>,
        <<"delete from", "t", ";">>, <<"update", "t", "set", "t">>, <<"vacuum full", ";">>,
        <<"reindex", "t", "concurrently", ";">>, <<"reindex", "t", ";">>, <<"pragma foreign_keys=off", ";">>,
        <<"lock_timeout", ";">>, <<"begin", ";">>, <<"create index concurrently", ";">>,
        <<"create table new_", "insert into", "select", "drop table", "rename to", ";">>},
    comments |-> {Silent, [Silent EXCEPT !.code = {"f()"}]}
        \cup {[Silent EXCEPT !.sign = sign, !.note = note] : sign \in {"//", "quoted //"},
                note \in {<<Phrase("skip auth", FALSE)>>, <<Phrase("skip auth", TRUE)>>,
                          <<Phrase("skip auth", TRUE), Phrase("skip auth", FALSE)>>,
                          <<Phrase("skip auth", TRUE), Phrase("disable tls", FALSE)>>,
                          <<Phrase("todo", FALSE), Phrase("token", FALSE)>>}} ]

FileNotes == [docker |-> {{"cap_add:"}, {"docker.sock", ":latest"}, {"curl", "| sh", "//"}},
    workflow |-> {{"permissions:"}, {"pr head"}, {"security"}, {"git clean"}, {"@main", "//"}},
    script |-> {{"git clean", "//"}, {"--verify-tag", "sha256"}, {"git add .", "npm"}},
    hook |-> {{"git clean"}, {"SKIP_TESTS=1", "//"}, {"--no-verify"}}, package |-> {},
    rust |-> {}, typescript |-> {{"@ts-nocheck"}, {"sanitize"}},
    tsconfig |-> {}, python |-> {}, sql |-> {}, migration |-> {}, ddl |-> {},
    comments |-> {<<Phrase("skip auth", FALSE)>>, <<Phrase("todo", TRUE)>>}]
=============================================================================
